---- MODULE Spec2Model ----
(***************************************************************************)
(* A model of tstools (toshipp/tstools): the record-and-replay stream      *)
(* adapter (stream/cue.rs), the PSI and PES reassemblers (psi/buffer.rs,   *)
(* pes/buffer.rs), the per-PID demultiplexer (ts/demuxer.rs), the MPEG-2   *)
(* CRC-32 (crc32.rs) and the Clean command (cmd/clean.rs).                 *)
(*                                                                         *)
(* Every component has its own variables, its own initial predicate and    *)
(* its own next-state relation; a specification runs one component and     *)
(* keeps the variables of the others at their idle values.                 *)
(***************************************************************************)
EXTENDS Integers, Sequences, FiniteSets, TLC

VARIABLES
    \* stream/cue.rs
    cueSrc,      \* the items the source stream will yield, in order
    cuePos,      \* how many of them the source has yielded
    cueStage,    \* "Cueable1" | "Cued1" | "Cueable2" | "Cued2"
    cueItems1,   \* Cueable.items / Cued.items of the inner adapter
    cueItems2,   \* the same of the outer adapter (wrapping the inner Cued)
    cueSeen1,    \* what the inner Cueable has yielded to its consumer
    cueSeen2,    \* what the outer Cueable has yielded to its consumer
    cueOut,      \* what the outermost Cued has yielded
    cueEnd,      \* the outermost Cued has returned Ready(None)
    \* cmd/clean.rs, dump_pat
    patEntries,  \* the (program_number, pid) entries the input PAT was built from
    patOffset,   \* where the section begins in the packet it was laid out in
    patPacket,   \* dump_pat's packet: its 188 raw bytes
    patPids,     \* dump_pat's pids: the keep-set
    patOut,      \* what dump_pat returned (or that it panicked)
    patPhase,    \* "input" | "done"
    \* psi/buffer.rs
    psiUp,       \* the packets upstream will yield (one PID), in order
    psiPos,      \* how many of them Buffer has taken from upstream
    psiState,    \* Buffer.state: "Initial" | "Partial" | "Full"
    psiCounter,  \* Buffer.counter
    psiBuf,      \* Buffer.buf
    psiOut,      \* what poll_next has returned so far, Pending left out
    psiLast,     \* the last poll_next: what it returned and what it met
    \* pes/buffer.rs
    pesUp,       \* the packets upstream will yield (one PID), in order
    pesPos,      \* how many of them Buffer has taken from upstream
    pesState,    \* Buffer.state: "Initial" | "Buffering" | "Closed"
    pesCounter,  \* Buffer.counter
    pesBuf,      \* Buffer.buf
    pesOut,      \* what poll_next has returned so far, Pending left out
    pesLast,     \* the last poll_next: what it returned
    \* ts/demuxer.rs
    dmxNum,      \* Inner.num
    dmxSenders,  \* Inner.senders: pid -> Entry, Entry.closed
    dmxClosed,   \* Inner.closed
    dmxAlive,    \* the Demuxer has not been dropped
    dmxChan,     \* pid -> the channel of its Entry: queue and receiver
    dmxRecvd,    \* pid -> what its receiver has received, in order
    dmxSends,    \* how many times start_send has been called
    dmxLast,     \* the last start_send: item, result, Inner and channels around it
    dmxLastReg,  \* the last try_register: result, and what it met and changed
    dmxEnded,    \* the PIDs whose receiver has been told the end of its stream
    dmxDue,      \* pid -> the items sent while its sink was registered and open
    dmxBuffered, \* Forward.buffered: the item start_send handed back, if any
    \* cmd/clean.rs, run
    clnIn,       \* the packets of the input, 188 raw bytes each
    clnPos,      \* how many of them the decoder has yielded
    clnItems,    \* Cueable.items, then what is left of Cued.items
    clnCued,     \* how many items cue_up handed to Cued
    clnPids,     \* the keep-set find_keep_pids resolved with
    clnOut,      \* the frames dump_packets has handed to the writer
    clnPhase,    \* "discover" | "dump" | "done" | "failed" | "panicked"
    \* cmd/clean.rs: find_keep_pids
    kpsPat,      \* the entries of the PAT of the input, in its order
    kpsSrc,      \* the sections that follow the PAT, as they were built
    kpsIndex,    \* the service index asked for: <<>> or <<i>>
    kpsPatBytes, \* the section the PSI buffer of PID 0 yields
    kpsStream,   \* the sections that follow: [pid, bytes]
    kpsPos,      \* sections forwarded so far
    kpsPhase,    \* "pat", "pmts", "done" or "failed"
    kpsNetwork,  \* network_pid: <<>> or <<pid>>
    kpsPmtPids,  \* pmt_pids of find_pids_from_pat
    kpsTxMap,    \* tx_map: the PMT PIDs no task was spawned for yet
    kpsTask,     \* pid -> the task spawned for it: [state, pids, queue]
    kpsChan,     \* the channel(1) from the tasks to collect_pids
    kpsOut,      \* the accumulator of the fold
    kpsKeep,     \* the result of find_keep_pids
    \* cmd/caption.rs, process_captions
    capPolicy,   \* handle_drcs: "Ignore", "FailFast" or "ErrorExit"
    capBase,     \* base_pts
    capIn,       \* the PES packets of the caption PID, as pes::Buffer yields them
    capPos,      \* how many of them the fold has taken
    capProc,     \* the DRCSProcessor: [unknown, code_map]
    capDecoder,  \* the decoder of the last Text data unit, as decode left it
    capOut,      \* the captions printed: [time_sec, time_ms, caption, at, unit]
    capResult,   \* "running", "ok", "failed" or "panicked"
    capError,    \* why it failed
    capLast,     \* the last step of the fold: what it met and the processor around it
    \* cmd/events.rs: the events operation
    evtSrc,      \* the PSI sections of the input, in source order
    evtPos,      \* sections the demuxer has taken
    evtPhase,    \* "sdt", "events", "done" or "failed"
    evtSid,      \* the service id find_service_id resolved with
    evtTask,     \* per EIT PID, the channel and the events not yet forwarded
    evtChan,     \* the event channel the tasks share
    evtMap,      \* the BTreeMap of into_event_map
    evtOut,      \* the records printed
    \* psi/eit.rs: the start-time field of an event
    eitField,    \* the five bytes of the start_time field
    eitStart,    \* <<>>, or what parse_datetime returned for them
    \* cmd/jitter.rs: the jitter of the first video and audio PTS
    jitChecks,   \* whether the build checks integer overflow
    jitVpts,     \* the PTS of the first I-picture the video task found
    jitApts,     \* the first PTS the audio task found
    jitVchan,    \* the vpts channel
    jitAchan,    \* the apts channel
    jitOut,      \* <<>>, or what the for_each closure printed
    \* cmd/common.rs: find_main_meta, then cue_up in cmd/caption.rs
    fmmSrc,      \* the sections of the input, one to a packet, in source order
    fmmPos,      \* packets the Cueable has yielded and recorded
    fmmPhase,    \* "pat", "pmt", "found", "pts" or "failed"
    fmmPatAt,    \* the packet whose PAT section gave the PMT PID
    fmmPid,      \* <<>>, or the PMT PID find_main_pmt_pid resolved with
    fmmScan,     \* how far in the stream the PMT scan has read
    fmmMetaAt,   \* the packet whose PMT section gave the Meta
    fmmMeta,     \* <<>>, or the Meta find_meta resolved with
    fmmReplay,   \* the packets the cued-up stream has yielded
    \* arib/string.rs: AribDecoder::decode on one input
    arbIn,       \* the bytes given to decode
    arbPos,      \* how many of them the iterator has yielded
    arbSelf,     \* <<>>, or the decoder
    arbString,   \* the string built so far
    arbRet,      \* "idle", "running", or how decode ended: "ok", "err", "panic"
    arbError,    \* the error of "err"
    arbSteps,    \* the iterations of the loop made so far
    \* cmd/events.rs: the descriptors of one event in try_into_event
    tieIn,       \* the descriptors of the event
    tieD,        \* the descriptor the outer loop is at, from 1
    tieI,        \* how many items of it the inner loop has taken
    tieItemDescs, \* item_descs
    tieItems,    \* items
    tieDetail,   \* event.detail, a set of <<description, body>>
    tieTitle,    \* event.title
    tieRet,      \* "idle", "running", "ok" (the event is pushed) or "err"
    tieLog,      \* what each decode of item_descs and items gave
    tiePc,       \* "loop", or "decoded" right after the decode and insert
    \* psi/pat.rs: one section given to ProgramAssociationSection::parse
    pasBytes,    \* the bytes of the section
    pasParsed,   \* <<>>, or the result of parse
    pasMain,     \* <<>>, or what the closure of find_main_pmt_pid returned for it
    \* ts/packet.rs: one call of TSPacketDecoder::decode
    tsdSrc,      \* the buffer given to decode
    tsdOut,      \* <<>>, or what decode returned
    \* cmd/caption.rs: dump_caption, data unit by data unit
    dcpIn,       \* the data groups, each its data units
    dcpPolicy,   \* handle_drcs
    dcpG,        \* the data group dump_caption is called with, from 1
    dcpK,        \* how many of its data units the loop has taken
    dcpPc,       \* "clear" before clear_code_map, "loop" after it
    dcpProc,     \* the DRCSProcessor: [unknown, code_map]
    dcpRet,      \* "idle", "running", "done" or "failed"
    dcpLog,      \* per Text data unit taken: where it is and the map its decoder got
    \* cmd/clean.rs: ForwardUntilResolved
    fwdSrc,      \* the items the stream yields, in order
    fwdPos,      \* how many of them have been pulled
    fwdItem,     \* forward_item: Some(x) is <<x>>, None is <<>>
    fwdDone,     \* forward_done
    fwdSunk,     \* the items the sink has accepted, in order
    fwdLog,      \* the calls made on stream, sink and future that told something
    fwdWaits,    \* how often the sink has answered NotReady
    fwdPc,       \* where poll is in its loop, or how it has ended
    fwdRet       \* what poll resolved with

cueVars == <<cueSrc, cuePos, cueStage, cueItems1, cueItems2, cueSeen1, cueSeen2,
             cueOut, cueEnd>>

patVars == <<patEntries, patOffset, patPacket, patPids, patOut, patPhase>>

psiVars == <<psiUp, psiPos, psiState, psiCounter, psiBuf, psiOut, psiLast>>

pesVars == <<pesUp, pesPos, pesState, pesCounter, pesBuf, pesOut, pesLast>>

dmxVars == <<dmxNum, dmxSenders, dmxClosed, dmxAlive, dmxChan, dmxRecvd, dmxSends, dmxLast,
             dmxLastReg, dmxEnded, dmxDue, dmxBuffered>>

clnVars == <<clnIn, clnPos, clnItems, clnCued, clnPids, clnOut, clnPhase>>

kpsVars == <<kpsPat, kpsSrc, kpsIndex, kpsPatBytes, kpsStream, kpsPos, kpsPhase, kpsNetwork, kpsPmtPids, kpsTxMap, kpsTask, kpsChan, kpsOut, kpsKeep>>

capVars == <<capPolicy, capBase, capIn, capPos, capProc, capDecoder, capOut, capResult, capError, capLast>>

evtVars == <<evtSrc, evtPos, evtPhase, evtSid, evtTask, evtChan, evtMap, evtOut>>

eitVars == <<eitField, eitStart>>

jitVars == <<jitChecks, jitVpts, jitApts, jitVchan, jitAchan, jitOut>>

fmmVars == <<fmmSrc, fmmPos, fmmPhase, fmmPatAt, fmmPid, fmmScan, fmmMetaAt, fmmMeta, fmmReplay>>

arbVars == <<arbIn, arbPos, arbSelf, arbString, arbRet, arbError, arbSteps>>

tieVars == <<tieIn, tieD, tieI, tieItemDescs, tieItems, tieDetail, tieTitle, tieRet, tieLog, tiePc>>

pasVars == <<pasBytes, pasParsed, pasMain>>

tsdVars == <<tsdSrc, tsdOut>>

dcpVars == <<dcpIn, dcpPolicy, dcpG, dcpK, dcpPc, dcpProc, dcpRet, dcpLog>>

fwdVars == <<fwdSrc, fwdPos, fwdItem, fwdDone, fwdSunk, fwdLog, fwdWaits, fwdPc, fwdRet>>

vars == <<cueVars, patVars, psiVars, pesVars, dmxVars, clnVars, kpsVars, capVars, evtVars, eitVars, jitVars, fmmVars, arbVars, tieVars, pasVars, tsdVars, dcpVars, fwdVars>>

(***************************************************************************)
(* The idle value of every component's variables, and which components a   *)
(* specification or a step leaves alone: every one but `c`.                *)
(***************************************************************************)
CueIdle ==
    /\ cueSrc = <<>>
    /\ cuePos = 0
    /\ cueStage = "Cueable1"
    /\ cueItems1 = <<>>
    /\ cueItems2 = <<>>
    /\ cueSeen1 = <<>>
    /\ cueSeen2 = <<>>
    /\ cueOut = <<>>
    /\ cueEnd = FALSE

PatIdle ==
    /\ patEntries = <<>>
    /\ patOffset = 0
    /\ patPacket = <<>>
    /\ patPids = {}
    /\ patOut = <<>>
    /\ patPhase = "input"

PsiIdle ==
    /\ psiUp = <<>>
    /\ psiPos = 0
    /\ psiState = "Initial"
    /\ psiCounter = 0
    /\ psiBuf = <<>>
    /\ psiOut = <<>>
    /\ psiLast = <<>>

PesIdle ==
    /\ pesUp = <<>>
    /\ pesPos = 0
    /\ pesState = "Initial"
    /\ pesCounter = 0
    /\ pesBuf = <<>>
    /\ pesOut = <<>>
    /\ pesLast = <<>>

DmxIdle ==
    /\ dmxNum = 0
    /\ dmxSenders = <<>>
    /\ dmxClosed = FALSE
    /\ dmxAlive = TRUE
    /\ dmxChan = <<>>
    /\ dmxRecvd = <<>>
    /\ dmxSends = 0
    /\ dmxLast = <<>>
    /\ dmxLastReg = <<>>
    /\ dmxEnded = {}
    /\ dmxDue = <<>>
    /\ dmxBuffered = <<>>

ClnIdle ==
    /\ clnIn = <<>>
    /\ clnPos = 0
    /\ clnItems = <<>>
    /\ clnCued = 0
    /\ clnPids = {}
    /\ clnOut = <<>>
    /\ clnPhase = "discover"

KpsIdle ==
    /\ kpsPat = <<>>
    /\ kpsSrc = <<>>
    /\ kpsIndex = <<>>
    /\ kpsPatBytes = <<>>
    /\ kpsStream = <<>>
    /\ kpsPos = 0
    /\ kpsPhase = "idle"
    /\ kpsNetwork = <<>>
    /\ kpsPmtPids = {}
    /\ kpsTxMap = {}
    /\ kpsTask = <<>>
    /\ kpsChan = <<>>
    /\ kpsOut = {}
    /\ kpsKeep = {}

CapIdle ==
    /\ capPolicy = "Ignore"
    /\ capBase = 0
    /\ capIn = <<>>
    /\ capPos = 0
    /\ capProc = [unknown |-> {}, code_map |-> <<>>]
    /\ capDecoder = <<>>
    /\ capOut = <<>>
    /\ capResult = "idle"
    /\ capError = ""
    /\ capLast = <<>>

EvtIdle ==
    /\ evtSrc = <<>>
    /\ evtPos = 0
    /\ evtPhase = "idle"
    /\ evtSid = 0
    /\ evtTask = <<>>
    /\ evtChan = <<>>
    /\ evtMap = <<>>
    /\ evtOut = <<>>

EitIdle ==
    /\ eitField = <<>>
    /\ eitStart = <<>>

JitIdle ==
    /\ jitChecks = FALSE
    /\ jitVpts = <<>>
    /\ jitApts = <<>>
    /\ jitVchan = <<>>
    /\ jitAchan = <<>>
    /\ jitOut = <<>>

FmmIdle ==
    /\ fmmSrc = <<>>
    /\ fmmPos = 0
    /\ fmmPhase = "idle"
    /\ fmmPatAt = 0
    /\ fmmPid = <<>>
    /\ fmmScan = 0
    /\ fmmMetaAt = 0
    /\ fmmMeta = <<>>
    /\ fmmReplay = <<>>

ArbIdle ==
    /\ arbIn = <<>>
    /\ arbPos = 0
    /\ arbSelf = <<>>
    /\ arbString = <<>>
    /\ arbRet = "idle"
    /\ arbError = [name |-> "", code |-> 0, what |-> ""]
    /\ arbSteps = <<>>

TieIdle ==
    /\ tieIn = <<>>
    /\ tieD = 0
    /\ tieI = 0
    /\ tieItemDescs = <<>>
    /\ tieItems = <<>>
    /\ tieDetail = {}
    /\ tieTitle = <<>>
    /\ tieRet = "idle"
    /\ tieLog = <<>>
    /\ tiePc = "loop"

PasIdle ==
    /\ pasBytes = <<>>
    /\ pasParsed = <<>>
    /\ pasMain = <<>>

TsdIdle ==
    /\ tsdSrc = <<>>
    /\ tsdOut = <<>>

DcpIdle ==
    /\ dcpIn = <<>>
    /\ dcpPolicy = ""
    /\ dcpG = 0
    /\ dcpK = 0
    /\ dcpPc = ""
    /\ dcpProc = <<>>
    /\ dcpRet = "idle"
    /\ dcpLog = <<>>

FwdIdle ==
    /\ fwdSrc = <<>>
    /\ fwdPos = 0
    /\ fwdItem = <<>>
    /\ fwdDone = FALSE
    /\ fwdSunk = <<>>
    /\ fwdLog = <<>>
    /\ fwdWaits = 0
    /\ fwdPc = "future"
    /\ fwdRet = <<>>

Idle(c) ==
    /\ (IF c = "cue" THEN TRUE ELSE CueIdle)
    /\ (IF c = "pat" THEN TRUE ELSE PatIdle)
    /\ (IF c = "psi" THEN TRUE ELSE PsiIdle)
    /\ (IF c = "pes" THEN TRUE ELSE PesIdle)
    /\ (IF c = "dmx" THEN TRUE ELSE DmxIdle)
    /\ (IF c = "cln" THEN TRUE ELSE ClnIdle)
    /\ (IF c = "kps" THEN TRUE ELSE KpsIdle)
    /\ (IF c = "cap" THEN TRUE ELSE CapIdle)
    /\ (IF c = "evt" THEN TRUE ELSE EvtIdle)
    /\ (IF c = "eit" THEN TRUE ELSE EitIdle)
    /\ (IF c = "jit" THEN TRUE ELSE JitIdle)
    /\ (IF c = "fmm" THEN TRUE ELSE FmmIdle)
    /\ (IF c = "arb" THEN TRUE ELSE ArbIdle)
    /\ (IF c = "tie" THEN TRUE ELSE TieIdle)
    /\ (IF c = "pas" THEN TRUE ELSE PasIdle)
    /\ (IF c = "tsd" THEN TRUE ELSE TsdIdle)
    /\ (IF c = "dcp" THEN TRUE ELSE DcpIdle)
    /\ (IF c = "fwd" THEN TRUE ELSE FwdIdle)

Frame(c) ==
    /\ (IF c = "cue" THEN TRUE ELSE UNCHANGED cueVars)
    /\ (IF c = "pat" THEN TRUE ELSE UNCHANGED patVars)
    /\ (IF c = "psi" THEN TRUE ELSE UNCHANGED psiVars)
    /\ (IF c = "pes" THEN TRUE ELSE UNCHANGED pesVars)
    /\ (IF c = "dmx" THEN TRUE ELSE UNCHANGED dmxVars)
    /\ (IF c = "cln" THEN TRUE ELSE UNCHANGED clnVars)
    /\ (IF c = "kps" THEN TRUE ELSE UNCHANGED kpsVars)
    /\ (IF c = "cap" THEN TRUE ELSE UNCHANGED capVars)
    /\ (IF c = "evt" THEN TRUE ELSE UNCHANGED evtVars)
    /\ (IF c = "eit" THEN TRUE ELSE UNCHANGED eitVars)
    /\ (IF c = "jit" THEN TRUE ELSE UNCHANGED jitVars)
    /\ (IF c = "fmm" THEN TRUE ELSE UNCHANGED fmmVars)
    /\ (IF c = "arb" THEN TRUE ELSE UNCHANGED arbVars)
    /\ (IF c = "tie" THEN TRUE ELSE UNCHANGED tieVars)
    /\ (IF c = "pas" THEN TRUE ELSE UNCHANGED pasVars)
    /\ (IF c = "tsd" THEN TRUE ELSE UNCHANGED tsdVars)
    /\ (IF c = "dcp" THEN TRUE ELSE UNCHANGED dcpVars)
    /\ (IF c = "fwd" THEN TRUE ELSE UNCHANGED fwdVars)

(***************************************************************************)
(* Sequences and bytes                                                     *)
(***************************************************************************)
Min(a, b) == IF a < b THEN a ELSE b

\* s[from..] of Rust, 0-based: the elements from index `from` on.
SliceFrom(s, from) == SubSeq(s, from + 1, Len(s))

\* s[..to] of Rust, 0-based and exclusive: the first `to` elements.
SliceTo(s, to) == SubSeq(s, 1, to)

IsPrefix(p, s) == Len(p) <= Len(s) /\ SubSeq(s, 1, Len(p)) = p

\* All sequences over S of length 0..n.
SeqUpTo(S, n) == UNION {[1..k -> S] : k \in 0..n}

\* s[i] of Rust, 0-based.
At(s, i) == s[i + 1]

\* s[from..to] of Rust, 0-based, `to` exclusive.
Slice(s, from, to) == SubSeq(s, from + 1, to)

RECURSIVE BitAnd(_, _)
BitAnd(a, b) ==
    IF a = 0 \/ b = 0 THEN 0
    ELSE (IF a % 2 = 1 /\ b % 2 = 1 THEN 1 ELSE 0) + 2 * BitAnd(a \div 2, b \div 2)

RECURSIVE BitOr(_, _)
BitOr(a, b) ==
    IF a = 0 THEN b ELSE IF b = 0 THEN a
    ELSE (IF a % 2 = 1 \/ b % 2 = 1 THEN 1 ELSE 0) + 2 * BitOr(a \div 2, b \div 2)

RECURSIVE BitXor(_, _)
BitXor(a, b) ==
    IF a = 0 THEN b ELSE IF b = 0 THEN a
    ELSE (IF a % 2 # b % 2 THEN 1 ELSE 0) + 2 * BitXor(a \div 2, b \div 2)

\* x << n, x >> n and `x as u8` on values that stay far below 2^31.
Shl(x, n) == x * 2^n
Shr(x, n) == x \div 2^n
AsU8(x) == x % 256

RECURSIVE Concat(_)
Concat(ss) == IF ss = <<>> THEN <<>> ELSE Head(ss) \o Concat(Tail(ss))

\* n copies of b.
Fill(n, b) == [i \in 1..n |-> b]

(***************************************************************************)
(* stream/cue.rs: Cueable and Cued                                         *)
(***************************************************************************)
\* Bounds of the cue specification.
MaxCueSrc == 3
CueItem == {1, 2}

\* VecDeque::push_back
CueablePushBack(items, item) == Append(items, item)

\* VecDeque::pop_front on a non-empty queue: the item and the rest.
CuedPopFront_Back(items) ==
    [item |-> items[Len(items)], rest |-> SubSeq(items, 1, Len(items) - 1)]
CuedPopFront(items) == [item |-> Head(items), rest |-> Tail(items)]

\* The source stream's poll_next: Ready(Some(item)) or Ready(None).
CueSrcReady == cuePos < Len(cueSrc)
CueSrcItem == cueSrc[cuePos + 1]

\* cueable(s): an empty queue around a source that has yielded nothing yet.
CueInit ==
    /\ cueSrc \in SeqUpTo(CueItem, MaxCueSrc)
    /\ cuePos = 0
    /\ cueStage = "Cueable1"
    /\ cueItems1 = <<>>
    /\ cueItems2 = <<>>
    /\ cueSeen1 = <<>>
    /\ cueSeen2 = <<>>
    /\ cueOut = <<>>
    /\ cueEnd = FALSE

\* Cueable::poll_next of the inner adapter: an item of the source is cloned
\* into the queue and yielded; Ready(None) and Pending are passed on.
CueablePollNext1 ==
    /\ cueStage = "Cueable1"
    /\ CueSrcReady
    /\ cuePos' = cuePos + 1
    /\ cueItems1' = CueablePushBack(cueItems1, CueSrcItem)
    /\ cueSeen1' = Append(cueSeen1, CueSrcItem)
    /\ UNCHANGED <<cueSrc, cueStage, cueItems2, cueSeen2, cueOut, cueEnd>>
    /\ Frame("cue")

\* Cueable::cue_up of the inner adapter.
CueUp1 ==
    /\ cueStage = "Cueable1"
    /\ cueStage' = "Cued1"
    /\ UNCHANGED <<cueSrc, cuePos, cueItems1, cueItems2, cueSeen1, cueSeen2,
                   cueOut, cueEnd>>
    /\ Frame("cue")

\* Cued::poll_next of the inner adapter, polled by the final consumer.
CuedPollNext1 ==
    /\ cueStage = "Cued1"
    /\ ~cueEnd
    /\ IF cueItems1 # <<>>
         THEN /\ cueItems1' = CuedPopFront(cueItems1).rest
              /\ cueOut' = Append(cueOut, CuedPopFront(cueItems1).item)
              /\ UNCHANGED <<cuePos, cueEnd>>
         ELSE IF CueSrcReady
         THEN /\ cuePos' = cuePos + 1
              /\ cueOut' = Append(cueOut, CueSrcItem)
              /\ UNCHANGED <<cueItems1, cueEnd>>
         ELSE /\ cueEnd' = TRUE
              /\ UNCHANGED <<cuePos, cueItems1, cueOut>>
    /\ UNCHANGED <<cueSrc, cueStage, cueItems2, cueSeen1, cueSeen2>>
    /\ Frame("cue")

\* cueable(cued): the Cued stream, not yet polled, is wrapped again.
CueWrap2 ==
    /\ cueStage = "Cued1"
    /\ cueOut = <<>>
    /\ ~cueEnd
    /\ cueStage' = "Cueable2"
    /\ cueItems2' = <<>>
    /\ UNCHANGED <<cueSrc, cuePos, cueItems1, cueSeen1, cueSeen2, cueOut, cueEnd>>
    /\ Frame("cue")

\* Cueable::poll_next of the outer adapter; its source is the inner Cued.
CueablePollNext2 ==
    /\ cueStage = "Cueable2"
    /\ IF cueItems1 # <<>>
         THEN /\ cueItems1' = CuedPopFront(cueItems1).rest
              /\ cueItems2' = CueablePushBack(cueItems2, CuedPopFront(cueItems1).item)
              /\ cueSeen2' = Append(cueSeen2, CuedPopFront(cueItems1).item)
              /\ UNCHANGED cuePos
         ELSE /\ CueSrcReady
              /\ cuePos' = cuePos + 1
              /\ cueItems2' = CueablePushBack(cueItems2, CueSrcItem)
              /\ cueSeen2' = Append(cueSeen2, CueSrcItem)
              /\ UNCHANGED cueItems1
    /\ UNCHANGED <<cueSrc, cueStage, cueSeen1, cueOut, cueEnd>>
    /\ Frame("cue")

\* Cueable::cue_up of the outer adapter.
CueUp2 ==
    /\ cueStage = "Cueable2"
    /\ cueStage' = "Cued2"
    /\ UNCHANGED <<cueSrc, cuePos, cueItems1, cueItems2, cueSeen1, cueSeen2,
                   cueOut, cueEnd>>
    /\ Frame("cue")

\* Cued::poll_next of the outer adapter: its own queue first, then its
\* source, the inner Cued (queue first, then the source stream).
CuedPollNext2 ==
    /\ cueStage = "Cued2"
    /\ ~cueEnd
    /\ IF cueItems2 # <<>>
         THEN /\ cueItems2' = CuedPopFront(cueItems2).rest
              /\ cueOut' = Append(cueOut, CuedPopFront(cueItems2).item)
              /\ UNCHANGED <<cuePos, cueItems1, cueEnd>>
         ELSE IF cueItems1 # <<>>
         THEN /\ cueItems1' = CuedPopFront(cueItems1).rest
              /\ cueOut' = Append(cueOut, CuedPopFront(cueItems1).item)
              /\ UNCHANGED <<cuePos, cueItems2, cueEnd>>
         ELSE IF CueSrcReady
         THEN /\ cuePos' = cuePos + 1
              /\ cueOut' = Append(cueOut, CueSrcItem)
              /\ UNCHANGED <<cueItems1, cueItems2, cueEnd>>
         ELSE /\ cueEnd' = TRUE
              /\ UNCHANGED <<cuePos, cueItems1, cueItems2, cueOut>>
    /\ UNCHANGED <<cueSrc, cueStage, cueSeen1, cueSeen2>>
    /\ Frame("cue")

CueNext ==
    \/ CueablePollNext1
    \/ CueUp1
    \/ CuedPollNext1
    \/ CueWrap2
    \/ CueablePollNext2
    \/ CueUp2
    \/ CuedPollNext2

InitCue == CueInit /\ Idle("cue")

SpecCue == InitCue /\ [][CueNext]_vars

(***************************************************************************)
(* C1: the Cued stream returned by cue_up() first yields the n items that  *)
(* were pulled through the Cueable, in the order they were yielded, then   *)
(* the remaining source items in source order: what it has yielded is      *)
(* always a prefix of the source sequence, agrees with what the Cueable    *)
(* had yielded, and is the whole source sequence when it reports the end   *)
(* of the stream. The same holds for a Cued wrapped in a second Cueable    *)
(* and cued up again.                                                      *)
(***************************************************************************)
CueReplayInOrder ==
    /\ IsPrefix(cueOut, cueSrc)
    /\ IsPrefix(cueSeen1, cueSrc)
    /\ cueStage = "Cued1" =>
         LET n == Min(Len(cueOut), Len(cueSeen1))
         IN  SliceTo(cueOut, n) = SliceTo(cueSeen1, n)
    /\ cueStage \in {"Cueable2", "Cued2"} =>
         /\ IsPrefix(cueSeen2, cueSrc)
         /\ LET n == Min(Len(cueSeen2), Len(cueSeen1))
            IN  SliceTo(cueSeen2, n) = SliceTo(cueSeen1, n)
    /\ cueStage = "Cued2" =>
         LET n == Min(Len(cueOut), Len(cueSeen2))
         IN  SliceTo(cueOut, n) = SliceTo(cueSeen2, n)
    /\ cueEnd => cueOut = cueSrc

\* A twice cued-up stream that has replayed both queues and gone on to the
\* live source, over a source whose items differ.
CueReplayWitness ==
    /\ cueStage = "Cued2"
    /\ cueEnd
    /\ Len(cueSrc) = MaxCueSrc
    /\ cueSrc[1] # cueSrc[2]
    /\ Len(cueSeen1) >= 1
    /\ Len(cueSeen2) > Len(cueSeen1)
    /\ Len(cueOut) > Len(cueSeen2)

(***************************************************************************)
(* crc32.rs: the table-driven MPEG-2 CRC-32. A u32 is kept as its four     *)
(* bytes, most significant first, so that shifts lose the bits a u32 loses.*)
(***************************************************************************)
U32Xor(a, b) == [i \in 1..4 |-> BitXor(a[i], b[i])]

\* w << 1 and w << 8 on u32.
U32Shl1(w) ==
    [i \in 1..4 |-> ((w[i] * 2) % 256) + (IF i < 4 THEN w[i + 1] \div 128 ELSE 0)]
U32Shl8(w) == <<w[2], w[3], w[4], 0>>

\* (w >> 24) as u8, and w & 0x80000000 != 0.
U32Top8(w) == w[1]
U32TopBit(w) == w[1] >= 128

\* 0x04c11db7, the generator polynomial, and 0xffffffff, the initial value.
Crc32Poly == <<4, 193, 29, 183>>
Crc32Init == <<255, 255, 255, 255>>

\* The loop that fills a table entry, n rounds of it: the next crc.
RECURSIVE Crc32TableRounds(_, _)
Crc32TableRounds(crc, n) ==
    IF n = 0 THEN crc
    ELSE Crc32TableRounds(
             IF U32TopBit(crc) THEN U32Xor(U32Shl1(crc), Crc32Poly) ELSE U32Shl1(crc),
             n - 1)

\* CRC32_TABLE: entry i starts from (i as u32) << 24.
CRC32_TABLE == [i \in 0..255 |-> Crc32TableRounds(<<i, 0, 0, 0>>, 8)]

\* The body of crc32's loop for the byte x: the next crc.
Crc32Step(crc, x) ==
    U32Xor(CRC32_TABLE[BitXor(U32Top8(crc), x)], U32Shl8(crc))

RECURSIVE Crc32From(_, _)
Crc32From(crc, data) ==
    IF data = <<>> THEN crc ELSE Crc32From(Crc32Step(crc, Head(data)), Tail(data))

\* crc32(data)
crc32(data) == Crc32From(Crc32Init, data)

(***************************************************************************)
(* Transport-stream packets as the decoder reads them (ts/packet.rs), and  *)
(* how the packets of the model's inputs are laid out.                     *)
(***************************************************************************)
TS_PACKET_LENGTH == 188
SYNC_BYTE == 71
PAT_PID == 0

\* The four header bytes; adaptation_field_control afc, no scrambling.
TsHeader(tei, pusi, pid, afc, cc) ==
    <<SYNC_BYTE,
      (IF tei THEN 128 ELSE 0) + (IF pusi THEN 64 ELSE 0) + Shr(pid, 8),
      pid % 256,
      Shl(afc, 4) + cc>>

\* A 188-byte packet: `af` is <<>> (no adaptation field) or <<n>>, n the
\* adaptation_field_length; the payload is followed by stuffing bytes, and
\* what of it does not fit in the packet is cut off.
TsPacket(tei, pusi, pid, af, cc, payload) ==
    LET head == IF af = <<>>
                  THEN TsHeader(tei, pusi, pid, 1, cc)
                  ELSE TsHeader(tei, pusi, pid, 3, cc) \o af \o Fill(af[1], 255)
        body == head \o payload
    IN  SliceTo(body \o Fill(TS_PACKET_LENGTH, 255), TS_PACKET_LENGTH)

\* The decoder's fields of a raw packet.
PacketTei(raw) == BitAnd(At(raw, 1), 128) > 0
PacketPusi(raw) == BitAnd(At(raw, 1), 64) > 0
PacketPid(raw) == BitOr(Shl(BitAnd(At(raw, 1), 31), 8), At(raw, 2))
PacketAfc(raw) == Shr(BitAnd(At(raw, 3), 48), 4)
PacketCc(raw) == BitAnd(At(raw, 3), 15)

\* One entry of the program map: program_number, then the PID under three
\* reserved bits that are set.
PatEntryBytes(e) ==
    <<Shr(e[1], 8), e[1] % 256, 224 + Shr(e[2], 8), e[2] % 256>>

RECURSIVE PatMapBytes(_)
PatMapBytes(es) ==
    IF es = <<>> THEN <<>> ELSE PatEntryBytes(Head(es)) \o PatMapBytes(Tail(es))

\* A program association section listing `es`, with its CRC-32 trailer.
PatSection(es) ==
    LET sl == 5 + 4 * Len(es) + 4
        body == <<0, 176 + Shr(sl, 8), sl % 256, 127, 225, 193, 0, 0>> \o PatMapBytes(es)
    IN  body \o crc32(body)

\* A payload_unit_start packet of PID 0 carrying the section after a
\* pointer field and that many filler bytes.
PatPacket(af, pointer, es) ==
    TsPacket(FALSE, TRUE, PAT_PID, af, 0, <<pointer>> \o Fill(pointer, 255) \o PatSection(es))

(***************************************************************************)
(* cmd/clean.rs: dump_pat                                                  *)
(***************************************************************************)
\* The result of a panic (an index or a slice out of range, an overflow).
Panic == [ok |-> FALSE, bytes |-> <<>>]

\* dump_pat's data_offset and pat_offset; data[0] is the pointer field.
DumpPatDataOffset(bytes) ==
    IF PacketAfc(bytes) \in {2, 3} THEN 4 + 1 + At(bytes, 4) ELSE 4

DumpPatOffset(bytes) ==
    DumpPatDataOffset(bytes) + 1 + At(bytes, DumpPatDataOffset(bytes))

\* section_length of the section at pat_offset.
DumpPatSectionLength(bytes) ==
    LET po == DumpPatOffset(bytes)
    IN  BitOr(Shl(BitAnd(At(bytes, po + 1), 15), 8), At(bytes, po + 2))

\* The two fields of a map entry.
MapProgramNumber(map) == BitOr(Shl(At(map, 0), 8), At(map, 1))
MapPid(map) == BitOr(Shl(BitAnd(At(map, 2), 31), 8), At(map, 3))

\* Whether the loop keeps an entry.
DumpPatKeeps_PidOnly(map, pids) == MapPid(map) \in pids
DumpPatKeeps(map, pids) == MapProgramNumber(map) = 0 \/ MapPid(map) \in pids

\* The loop over the map, whose length is a multiple of 4: the bytes of the
\* entries it copies.
RECURSIVE DumpPatMap(_, _)
DumpPatMap(map, pids) ==
    IF Len(map) = 0 THEN <<>>
    ELSE (IF DumpPatKeeps(map, pids) THEN Slice(map, 0, 4) ELSE <<>>)
         \o DumpPatMap(SliceFrom(map, 4), pids)

\* new_section_length
DumpPatNewLength(newMapBytes) == 5 + newMapBytes + 4

\* out.resize(TS_PACKET_LENGTH, 0)
Resize(out, n, b) ==
    IF Len(out) >= n THEN SliceTo(out, n) ELSE out \o Fill(n - Len(out), b)

\* dump_pat(packet, pids) on the packet's raw bytes. Every index and slice
\* that is out of range, and 3 + section_length - 4 below 8, panics.
DumpPat(bytes, pids) ==
    LET n == Len(bytes)
        dataOffset == DumpPatDataOffset(bytes)
    IN  IF dataOffset >= n THEN Panic
        ELSE
    LET po == DumpPatOffset(bytes)
    IN  IF po + 8 > n THEN Panic
        ELSE
    LET sl == DumpPatSectionLength(bytes)
        mapEnd == po + 3 + sl - 4
    IN  IF mapEnd < po + 8 \/ mapEnd > n \/ (mapEnd - (po + 8)) % 4 # 0 THEN Panic
        ELSE
    LET kept == DumpPatMap(Slice(bytes, po + 8, mapEnd), pids)
        nsl == DumpPatNewLength(Len(kept))
        out0 == SliceTo(bytes, po + 8) \o kept
        out1 == [out0 EXCEPT
                  ![po + 2] = BitOr(BitAnd(out0[po + 2], 240), AsU8(Shr(nsl, 8))),
                  ![po + 3] = AsU8(nsl)]
        end == po + 3 + nsl - 4
    IN  IF end > Len(out1) THEN Panic
        ELSE [ok |-> TRUE,
              bytes |-> Resize(out1 \o crc32(Slice(out1, po, end)), TS_PACKET_LENGTH, 0)]

(***************************************************************************)
(* dump_pat applied to the packets of single-section PATs                  *)
(***************************************************************************)
\* Bounds: the entries and the layouts the inputs are drawn from.
MaxPatEntries == 3
PatEntryChoice == {<<0, 16>>, <<257, 496>>, <<258, 752>>, <<0, 496>>}
PatPidChoice == {16, 496, 752}
PatAfChoice == {<<>>, <<2>>}
PatPointerChoice == {0, 3, 175}

PatInit ==
    /\ patEntries \in SeqUpTo(PatEntryChoice, MaxPatEntries)
    /\ patPids \in SUBSET PatPidChoice
    /\ \E af \in PatAfChoice, pointer \in PatPointerChoice :
          /\ patPacket = PatPacket(af, pointer, patEntries)
          /\ patOffset = 4 + (IF af = <<>> THEN 0 ELSE 1 + af[1]) + 1 + pointer
    /\ patOut = <<>>
    /\ patPhase = "input"

InitPat == PatInit /\ Idle("pat")

\* dump_pat(packet, &pids)
DumpPatCall ==
    /\ patPhase = "input"
    /\ patOut' = DumpPat(patPacket, patPids)
    /\ patPhase' = "done"
    /\ UNCHANGED <<patEntries, patOffset, patPacket, patPids>>
    /\ Frame("pat")

PatNext == DumpPatCall

SpecPat == InitPat /\ [][PatNext]_vars

(***************************************************************************)
(* The MPEG-2 CRC-32 as its definition gives it: the remainder register of *)
(* the division by the generator polynomial x^32 + x^26 + x^23 + x^22 +    *)
(* x^16 + x^12 + x^11 + x^10 + x^8 + x^7 + x^5 + x^4 + x^2 + x + 1, fed    *)
(* the message bits most significant first, all ones at the start and not  *)
(* inverted at the end.                                                    *)
(***************************************************************************)
RefPolyExponents == {26, 23, 22, 16, 12, 11, 10, 8, 7, 5, 4, 2, 1, 0}

\* The polynomial's terms below x^32 as a number: its upper and its lower
\* 16 bits.
RECURSIVE RefSum(_)
RefSum(S) == IF S = {} THEN 0 ELSE LET e == CHOOSE x \in S : TRUE IN 2^e + RefSum(S \ {e})
RefPolyHigh == RefSum({e - 16 : e \in {x \in RefPolyExponents : x >= 16}})
RefPolyLow == RefSum({x \in RefPolyExponents : x < 16})

\* Bit k of a byte, k = 1 the most significant.
RefBit(byte, k) == Shr(byte, 8 - k) % 2

\* The register, <<upper 16 bits, lower 16 bits>>, after one message bit.
RefShiftIn(reg, bit) ==
    LET feedback == (Shr(reg[1], 15) + bit) % 2
        high == ((reg[1] * 2) % 65536) + Shr(reg[2], 15)
        low == (reg[2] * 2) % 65536
    IN  IF feedback = 1
          THEN <<BitXor(high, RefPolyHigh), BitXor(low, RefPolyLow)>>
          ELSE <<high, low>>

\* The register after the eight bits of a byte.
RefByte(reg, byte) ==
    LET r1 == RefShiftIn(reg, RefBit(byte, 1))
        r2 == RefShiftIn(r1, RefBit(byte, 2))
        r3 == RefShiftIn(r2, RefBit(byte, 3))
        r4 == RefShiftIn(r3, RefBit(byte, 4))
        r5 == RefShiftIn(r4, RefBit(byte, 5))
        r6 == RefShiftIn(r5, RefBit(byte, 6))
        r7 == RefShiftIn(r6, RefBit(byte, 7))
    IN  RefShiftIn(r7, RefBit(byte, 8))

\* The register after the bytes of data from data[n] on.
RECURSIVE RefRegister(_, _, _)
RefRegister(reg, data, n) ==
    IF reg[1] >= 0 /\ n > Len(data) THEN reg
    ELSE RefRegister(RefByte(reg, data[n]), data, n + 1)

\* The register's four bytes, most significant first.
RefCrc32(data) ==
    LET reg == RefRegister(<<65535, 65535>>, data, 1)
    IN  <<Shr(reg[1], 8), reg[1] % 256, Shr(reg[2], 8), reg[2] % 256>>

\* The entries dump_pat has to keep.
PatKept ==
    LET Keep(e) == e[1] = 0 \/ e[2] \in patPids
    IN  SelectSeq(patEntries, Keep)

\* The input is a single-packet PAT: the whole section lies in the packet.
PatFits == patOffset + Len(PatSection(patEntries)) <= TS_PACKET_LENGTH

(***************************************************************************)
(* C3: for every single-packet PAT and every keep-set, the section written *)
(* by dump_pat lists, in their original order, exactly the input entries   *)
(* whose program_number is 0 or whose PID is in the keep-set; its 12-bit   *)
(* section_length is 5 + 4 * (kept entries) + 4; the 4 bytes after the     *)
(* kept entries are the MPEG-2 CRC-32 of the section bytes from table_id   *)
(* up to the last kept entry.                                              *)
(***************************************************************************)
PatRewriteCorrect ==
    (patPhase = "done" /\ PatFits) =>
        /\ patOut.ok
        /\ Len(patOut.bytes) = TS_PACKET_LENGTH
        /\ LET o == patOut.bytes
               mapAt == patOffset + 8
               crcAt == mapAt + 4 * Len(PatKept)
           IN  /\ (At(o, patOffset + 1) % 16) * 256 + At(o, patOffset + 2)
                    = 5 + 4 * Len(PatKept) + 4
               /\ Slice(o, mapAt, crcAt) = PatMapBytes(PatKept)
               /\ Slice(o, crcAt, crcAt + 4) = RefCrc32(Slice(o, patOffset, crcAt))

\* A rewrite that keeps the network entry although its PID is not in the
\* keep-set, keeps the program whose PID is in it and drops the other, of a
\* section that lies behind an adaptation field and a pointer field.
PatRewriteWitness ==
    /\ patPhase = "done"
    /\ PatFits
    /\ patOffset = 4 + 3 + 1 + 3
    /\ patEntries = <<<<0, 16>>, <<257, 496>>, <<258, 752>>>>
    /\ patPids = {496}
    /\ patOut.ok

(***************************************************************************)
(* psi/buffer.rs: the PSI section reassembler                              *)
(*                                                                         *)
(* A packet is the decoder's TSPacket, cut to the fields the reassemblers  *)
(* read: data is Some(bytes) when `some`, None otherwise. The payload of a *)
(* packet is as long as its adaptation field leaves it, down to no byte at *)
(* all.                                                                    *)
(***************************************************************************)
Packet(tei, pusi, cc, some, data) ==
    [tei |-> tei, pusi |-> pusi, cc |-> cc, some |-> some, data |-> data]

\* (usize::from(buf[1] & 0xf) << 8) | usize::from(buf[2])
SectionLength(buf) == BitOr(Shl(BitAnd(At(buf, 1), 15), 8), At(buf, 2))

\* (self.counter + 1) % 16 == packet.continuity_counter
IsNextCounter(counter, cc) == (counter + 1) % 16 = cc

\* Buffer::feed_packet on the reassembler st: the reassembler afterwards and
\* the error returned ("" for Ok, "panic_index" for bytes[0] of an empty
\* payload).
PsiFeedPacket_GapKeeps(st, packet) ==
    IF ~packet.some THEN [st |-> st, err |-> "MalformedNoData"]
    ELSE IF packet.pusi THEN
        IF Len(packet.data) = 0 THEN [st |-> st, err |-> "panic_index"]
        ELSE IF Len(packet.data) < At(packet.data, 0) + 1
          THEN [st |-> st, err |-> "MalformedNoSectionHeader"]
        ELSE [st |-> [st EXCEPT !.buf = SliceFrom(packet.data, At(packet.data, 0) + 1),
                                !.counter = packet.cc,
                                !.state = "Partial"],
              err |-> ""]
    ELSE IF st.counter = packet.cc THEN [st |-> st, err |-> ""]
    ELSE IF IsNextCounter(st.counter, packet.cc)
      THEN [st |-> [st EXCEPT !.counter = packet.cc, !.buf = st.buf \o packet.data],
            err |-> ""]
    ELSE [st |-> st, err |-> "Discontinued"]

PsiFeedPacket_StartAppends(st, packet) ==
    IF ~packet.some THEN [st |-> st, err |-> "MalformedNoData"]
    ELSE IF packet.pusi THEN
        IF Len(packet.data) = 0 THEN [st |-> st, err |-> "panic_index"]
        ELSE IF Len(packet.data) < At(packet.data, 0) + 1
          THEN [st |-> st, err |-> "MalformedNoSectionHeader"]
        ELSE [st |-> [st EXCEPT !.buf = st.buf \o SliceFrom(packet.data, At(packet.data, 0) + 1),
                                !.counter = packet.cc,
                                !.state = "Partial"],
              err |-> ""]
    ELSE IF st.counter = packet.cc THEN [st |-> st, err |-> ""]
    ELSE IF IsNextCounter(st.counter, packet.cc)
      THEN [st |-> [st EXCEPT !.counter = packet.cc, !.buf = st.buf \o packet.data],
            err |-> ""]
    ELSE [st |-> [st EXCEPT !.state = "Initial"], err |-> "Discontinued"]

PsiFeedPacket(st, packet) ==
    IF ~packet.some THEN [st |-> st, err |-> "MalformedNoData"]
    ELSE IF packet.pusi THEN
        IF Len(packet.data) = 0 THEN [st |-> st, err |-> "panic_index"]
        ELSE IF Len(packet.data) < At(packet.data, 0) + 1
          THEN [st |-> st, err |-> "MalformedNoSectionHeader"]
        ELSE [st |-> [st EXCEPT !.buf = SliceFrom(packet.data, At(packet.data, 0) + 1),
                                !.counter = packet.cc,
                                !.state = "Partial"],
              err |-> ""]
    ELSE IF st.counter = packet.cc THEN [st |-> st, err |-> ""]
    ELSE IF IsNextCounter(st.counter, packet.cc)
      THEN [st |-> [st EXCEPT !.counter = packet.cc, !.buf = st.buf \o packet.data],
            err |-> ""]
    ELSE [st |-> [st EXCEPT !.state = "Initial"], err |-> "Discontinued"]

\* next_valid_packet!() over the upstream `up`, of which the packets up to
\* `ready` can be had now and which ends after its last packet when `eof`:
\* packets with transport_error_indicator are skipped.
RECURSIVE NextValidPacket(_, _, _, _)
NextValidPacket(up, pos, ready, eof) ==
    IF pos < ready THEN
        IF up[pos + 1].tei THEN NextValidPacket(up, pos + 1, ready, eof)
        ELSE [kind |-> "packet", pos |-> pos + 1]
    ELSE IF pos = Len(up) /\ eof THEN [kind |-> "end", pos |-> pos]
    ELSE [kind |-> "pending", pos |-> pos]

\* What poll_next returns: the reassembler afterwards, the item, and how
\* many bytes the buffer held when the item was cut from it.
PsiReturn(st, kind, bytes, had) ==
    [st |-> st, kind |-> kind, bytes |-> bytes, had |-> had]

\* BytesMut::split_to(n), n within the buffer: what is split off, and what
\* stays in the buffer.
PsiSplitTo_Clear(buf, n) == [head |-> SliceTo(buf, n), rest |-> <<>>]
PsiSplitTo(buf, n) == [head |-> SliceTo(buf, n), rest |-> SliceFrom(buf, n)]

\* Whether the buffer holds a whole section.
PsiBufferFull_HeaderOnly(buf) == Len(buf) >= 3
PsiBufferFull(buf) == Len(buf) >= 3 /\ Len(buf) >= SectionLength(buf) + 3

\* Buffer::poll_next: the loop, from the reassembler st = [state, counter,
\* buf, pos] on.
RECURSIVE PsiPollNext(_, _, _, _)
PsiPollNext(st, up, ready, eof) ==
    LET nv == NextValidPacket(up, st.pos, ready, eof)
        taken == [st EXCEPT !.pos = nv.pos]
        \* let packet = next_valid_packet!(); self.feed_packet(packet)?;
        FeedNext ==
            IF nv.kind # "packet" THEN PsiReturn(taken, nv.kind, <<>>, 0)
            ELSE LET fed == PsiFeedPacket(taken, up[nv.pos])
                 IN  IF fed.err # "" THEN PsiReturn(fed.st, fed.err, <<>>, 0)
                     ELSE PsiPollNext(fed.st, up, ready, eof)
    IN  CASE st.state = "Initial" ->
               IF nv.kind = "packet" /\ ~up[nv.pos].pusi
                 THEN PsiPollNext(taken, up, ready, eof)
                 ELSE FeedNext
          [] st.state = "Partial" ->
               IF PsiBufferFull(st.buf)
                 THEN PsiPollNext([st EXCEPT !.state = "Full"], up, ready, eof)
                 ELSE FeedNext
          [] st.state = "Full" ->
               LET n == SectionLength(st.buf) + 3
               IN  IF n > Len(st.buf)
                     THEN PsiReturn([st EXCEPT !.state = "Partial"], "panic_split_to",
                                    <<>>, Len(st.buf))
                     ELSE PsiReturn([st EXCEPT !.state = "Partial",
                                               !.buf = PsiSplitTo(st.buf, n).rest],
                                    "section", PsiSplitTo(st.buf, n).head, Len(st.buf))

\* Bounds: how many packets upstream yields, and the packets it yields.
MaxPsiPackets == 3
PsiPacketChoice ==
    { \* start packets: a section that needs one more byte; two whole
      \* sections; a whole section behind a pointer field, with a tail
      Packet(FALSE, TRUE, 15, TRUE, <<0, 0, 176, 1>>),
      Packet(FALSE, TRUE, 0, TRUE, <<0, 0, 0, 0, 2, 176, 0>>),
      Packet(FALSE, TRUE, 0, TRUE, <<1, 9, 0, 0, 1, 7, 5>>),
      \* start packets: the pointer field past the payload, an empty
      \* payload, no payload
      Packet(FALSE, TRUE, 1, TRUE, <<2, 9>>),
      Packet(FALSE, TRUE, 1, TRUE, <<>>),
      Packet(FALSE, TRUE, 1, FALSE, <<>>),
      \* continuation packets
      Packet(FALSE, FALSE, 0, TRUE, <<7>>),
      Packet(FALSE, FALSE, 1, TRUE, <<0, 0>>),
      Packet(FALSE, FALSE, 1, TRUE, <<>>),
      Packet(FALSE, FALSE, 2, TRUE, <<3, 0, 0, 8>>),
      \* no payload, and a transport error
      Packet(FALSE, FALSE, 1, FALSE, <<>>),
      Packet(TRUE, FALSE, 4, FALSE, <<>>) }

\* Buffer::new(stream)
PsiInit ==
    /\ psiUp \in SeqUpTo(PsiPacketChoice, MaxPsiPackets)
    /\ psiPos = 0
    /\ psiState = "Initial"
    /\ psiCounter = 0
    /\ psiBuf = <<>>
    /\ psiOut = <<>>
    /\ psiLast = <<>>

InitPsi == PsiInit /\ Idle("psi")

\* The last poll_next has ended the stream or the program.
PsiStopped ==
    psiLast # <<>> /\ psiLast[1].kind \in {"end", "panic_index", "panic_split_to"}

\* One call of Buffer::poll_next, with upstream ready up to some packet.
PsiBufferPollNext ==
    /\ ~PsiStopped
    /\ \E ready \in psiPos..Len(psiUp), eof \in BOOLEAN :
         LET st == [state |-> psiState, counter |-> psiCounter, buf |-> psiBuf,
                    pos |-> psiPos]
             r == PsiPollNext(st, psiUp, ready, eof)
             item == [kind |-> r.kind, bytes |-> r.bytes, had |-> r.had,
                      pos |-> r.st.pos, took |-> r.st.pos - psiPos,
                      before |-> [state |-> psiState, counter |-> psiCounter,
                                  buf |-> psiBuf],
                      after |-> [state |-> r.st.state, counter |-> r.st.counter,
                                 buf |-> r.st.buf]]
         IN  /\ (eof => ready = Len(psiUp))
             /\ psiState' = r.st.state
             /\ psiCounter' = r.st.counter
             /\ psiBuf' = r.st.buf
             /\ psiPos' = r.st.pos
             /\ psiOut' = IF r.kind = "pending" THEN psiOut ELSE Append(psiOut, item)
             /\ psiLast' = <<item>>
    /\ UNCHANGED psiUp
    /\ Frame("psi")

PsiNext == PsiBufferPollNext

SpecPsi == InitPsi /\ [][PsiNext]_vars

\* The 12-bit section_length of a section: the low nibble of its byte 1 and
\* its byte 2.
PsiLengthField(section) == (section[2] % 16) * 256 + section[3]

(***************************************************************************)
(* C4: every section the PSI reassembler emits is exactly 3 +              *)
(* section_length bytes long, section_length being the 12-bit value in the *)
(* low nibble of byte 1 and in byte 2 of the emitted bytes; no section is  *)
(* emitted before that many bytes are buffered.                            *)
(***************************************************************************)
PsiSectionLengthExact ==
    \A i \in DOMAIN psiOut :
        /\ psiOut[i].kind # "panic_split_to"
        /\ psiOut[i].kind = "section" =>
             /\ Len(psiOut[i].bytes) >= 3
             /\ Len(psiOut[i].bytes) = 3 + PsiLengthField(psiOut[i].bytes)
             /\ psiOut[i].had >= 3 + PsiLengthField(psiOut[i].bytes)

\* A section whose length sits under set reserved bits and which needed a
\* second packet, emitted from a buffer that held more than the section.
PsiSectionLengthWitness ==
    \E i \in DOMAIN psiOut :
        /\ psiOut[i].kind = "section"
        /\ psiOut[i].bytes = <<0, 176, 1, 7>>
        /\ psiOut[i].took = 1
        /\ \E j \in DOMAIN psiOut :
              /\ psiOut[j].kind = "section"
              /\ psiOut[j].had > Len(psiOut[j].bytes)

(***************************************************************************)
(* The run of packets the reassembler is in, read off the packets it has   *)
(* taken: the last payload_unit_start packet and the packets after it.     *)
(* Packets with a transport error are not part of it.                      *)
(***************************************************************************)
PsiStarts(up, pos) == {i \in 1..pos : ~up[i].tei /\ up[i].pusi}

PsiLastStart(up, pos) == CHOOSE i \in PsiStarts(up, pos) : \A j \in PsiStarts(up, pos) : j <= i

\* The start packet has a payload that holds its pointer field and the
\* bytes the pointer field skips.
PsiGoodStart(packet) ==
    packet.some /\ Len(packet.data) >= 1 /\ Len(packet.data) >= 1 + packet.data[1]

\* The packets i..pos after a start packet, the last counted continuity
\* counter being `counter`: whether there is a gap, and the payloads of the
\* packets that count (a packet repeating the counter does not).
RECURSIVE PsiRunAfter(_, _, _, _)
PsiRunAfter(up, i, pos, counter) ==
    IF i > pos THEN [gap |-> FALSE, bytes |-> <<>>]
    ELSE IF up[i].tei \/ ~up[i].some \/ up[i].cc = counter
      THEN PsiRunAfter(up, i + 1, pos, counter)
    ELSE IF up[i].cc = (counter + 1) % 16
      THEN LET rest == PsiRunAfter(up, i + 1, pos, up[i].cc)
           IN  [gap |-> rest.gap, bytes |-> up[i].data \o rest.bytes]
    ELSE [gap |-> TRUE, bytes |-> <<>>]

\* The reassembler is in a run that began with a good start packet and has
\* no gap.
PsiInRun(up, pos) ==
    /\ PsiStarts(up, pos) # {}
    /\ PsiGoodStart(up[PsiLastStart(up, pos)])
    /\ ~PsiRunAfter(up, PsiLastStart(up, pos) + 1, pos,
                    up[PsiLastStart(up, pos)].cc).gap

\* payload[1 + pointer_field ..] of the start packet, then the payloads of
\* the continuation packets.
PsiRunBytes(up, pos) ==
    LET s == PsiLastStart(up, pos)
    IN  SubSeq(up[s].data, 2 + up[s].data[1], Len(up[s].data))
        \o PsiRunAfter(up, s + 1, pos, up[s].cc).bytes

\* The sections emitted since the packet at `s` was taken, concatenated.
RECURSIVE PsiEmittedSince(_, _)
PsiEmittedSince(out, s) ==
    IF out = <<>> THEN <<>>
    ELSE (IF Head(out).kind = "section" /\ Head(out).pos >= s
            THEN Head(out).bytes ELSE <<>>)
         \o PsiEmittedSince(Tail(out), s)

(***************************************************************************)
(* C5: over a run of packets of one PID that begins with a                 *)
(* payload_unit_start packet and has no further start packet and no        *)
(* continuity gap, the sections emitted so far followed by the bytes still *)
(* in the buffer are payload[1 + pointer_field ..] of the start packet     *)
(* followed by the payloads of the continuation packets, each counted once *)
(* (a packet repeating the last continuity counter changes nothing). The   *)
(* bytes after an emitted section stay in the buffer, and a whole section  *)
(* among them is emitted by the next poll without another packet being     *)
(* taken.                                                                  *)
(***************************************************************************)
PsiBytesConserved ==
    /\ (~PsiStopped /\ PsiInRun(psiUp, psiPos)) =>
          PsiEmittedSince(psiOut, PsiLastStart(psiUp, psiPos)) \o psiBuf
              = PsiRunBytes(psiUp, psiPos)
    /\ (psiState = "Partial" /\ PsiBufferFull(psiBuf)) =>
          /\ psiLast # <<>> /\ psiLast[1].kind = "section"
    /\ \A i \in DOMAIN psiOut :
          (i > 1 /\ psiOut[i].kind = "section" /\ psiOut[i - 1].kind = "section"
             /\ psiOut[i - 1].had >= Len(psiOut[i - 1].bytes) + Len(psiOut[i].bytes))
          => psiOut[i].took = 0

\* Two sections of one payload, the second emitted without a packet being
\* taken, then a repeated and a next packet, whose bytes are in the buffer.
PsiBytesConservedWitness ==
    /\ PsiInRun(psiUp, psiPos)
    /\ psiPos = 3
    /\ psiUp[2].cc = psiUp[1].cc
    /\ psiUp[2].data # <<>>
    /\ Len(psiOut) >= 2
    /\ psiOut[1].kind = "section"
    /\ psiOut[2].kind = "section"
    /\ psiOut[2].took = 0
    /\ psiBuf # <<>>


(***************************************************************************)
(* pes/buffer.rs: the PES reassembler of one PID.                          *)
(***************************************************************************)
\* (usize::from(self.buf[4]) << 8) | usize::from(self.buf[5])
PesPacketLength(buf) == BitOr(Shl(At(buf, 4), 8), At(buf, 5))

\* Buffer::get_bytes on the buffer buf: whether it returns Ok, the bytes it
\* returns, and what it leaves in the buffer.
PesGetBytes_Whole(buf) ==
    IF Len(buf) < 6 THEN [ok |-> FALSE, bytes |-> <<>>, rest |-> buf]
    ELSE IF Len(buf) < PesPacketLength(buf) + 6
      THEN [ok |-> FALSE, bytes |-> <<>>, rest |-> buf]
    ELSE [ok |-> TRUE, bytes |-> buf, rest |-> <<>>]
PesGetBytes_NoZero(buf) ==
    IF Len(buf) < 6 THEN [ok |-> FALSE, bytes |-> <<>>, rest |-> buf]
    ELSE IF Len(buf) < PesPacketLength(buf) + 6
      THEN [ok |-> FALSE, bytes |-> <<>>, rest |-> buf]
    ELSE [ok |-> TRUE, bytes |-> SliceTo(buf, PesPacketLength(buf) + 6),
          rest |-> SliceFrom(buf, PesPacketLength(buf) + 6)]
PesGetBytes(buf) ==
    IF Len(buf) < 6 THEN [ok |-> FALSE, bytes |-> <<>>, rest |-> buf]
    ELSE IF PesPacketLength(buf) = 0
      THEN [ok |-> TRUE, bytes |-> buf, rest |-> <<>>]
    ELSE IF Len(buf) < PesPacketLength(buf) + 6
      THEN [ok |-> FALSE, bytes |-> <<>>, rest |-> buf]
    ELSE [ok |-> TRUE, bytes |-> SliceTo(buf, PesPacketLength(buf) + 6),
          rest |-> SliceFrom(buf, PesPacketLength(buf) + 6)]

\* What poll_next returns: the reassembler afterwards, the item ("pes" with
\* its bytes, an error, "end" for Ready(None), "pending"), and whether the
\* item was returned because upstream had ended.
PesReturn(st, kind, bytes, eos) ==
    [st |-> st, kind |-> kind, bytes |-> bytes, eos |-> eos]

\* The payload_unit_start_indicator arm of poll_next, the reassembler st
\* having taken `packet` with the payload `data`: get_bytes when Buffering,
\* then the new packet's payload replaces the buffer. `got` is what
\* get_bytes returned, if it was called and returned Ok.
PesOnStart_NoGetBytes(st, packet) ==
    [st |-> [st EXCEPT !.state = "Buffering", !.counter = packet.cc,
                       !.buf = packet.data],
     got |-> <<>>]
PesOnStart(st, packet) ==
    [st |-> [st EXCEPT !.state = "Buffering", !.counter = packet.cc,
                       !.buf = packet.data],
     got |-> IF st.state = "Buffering" /\ PesGetBytes(st.buf).ok
               THEN <<PesGetBytes(st.buf).bytes>> ELSE <<>>]

\* The reset of poll_next when the continuity counter of a packet that is
\* no start is neither the recorded one nor the next: state Initial and
\* the buffer cleared, before the error is returned.
PesOnGap_Keeps(taken) == taken
PesOnGap(taken) == [taken EXCEPT !.state = "Initial", !.buf = <<>>]

\* mem::replace(&mut self.state, State::Closed) when upstream has ended.
PesOnEnd_StaysOpen(st) == st
PesOnEnd(st) == [st EXCEPT !.state = "Closed"]

\* Buffer::poll_next: the loop, from the reassembler st = [state, counter,
\* buf, pos] on, over the upstream `up`, of which the packets up to `ready`
\* can be had now and which ends after its last packet when `eof`.
RECURSIVE PesPollNext(_, _, _, _)
PesPollNext(st, up, ready, eof) ==
    IF st.state = "Closed" THEN PesReturn(st, "end", <<>>, FALSE)
    ELSE IF st.pos >= ready THEN
        IF st.pos = Len(up) /\ eof THEN
            \* Poll::Ready(None) from upstream
            LET closed == PesOnEnd(st)
                got == PesGetBytes(st.buf)
            IN  IF st.state = "Buffering"
                  THEN IF got.ok
                         THEN PesReturn([closed EXCEPT !.buf = got.rest], "pes",
                                        got.bytes, TRUE)
                         ELSE PesReturn(closed, "not enough data", <<>>, TRUE)
                  ELSE PesReturn(closed, "end", <<>>, TRUE)
        ELSE PesReturn(st, "pending", <<>>, FALSE)
    ELSE
        LET packet == up[st.pos + 1]
            taken == [st EXCEPT !.pos = st.pos + 1]
        IN  IF packet.tei THEN PesPollNext(taken, up, ready, eof)
            ELSE IF ~packet.some THEN PesReturn(taken, "no data", <<>>, FALSE)
            ELSE IF packet.pusi THEN
                LET started == PesOnStart(taken, packet)
                IN  IF started.got # <<>>
                      THEN PesReturn(started.st, "pes", started.got[1], FALSE)
                      ELSE PesPollNext(started.st, up, ready, eof)
            ELSE IF st.state = "Initial" THEN PesPollNext(taken, up, ready, eof)
            ELSE IF st.counter = packet.cc THEN PesPollNext(taken, up, ready, eof)
            ELSE IF IsNextCounter(st.counter, packet.cc)
              THEN PesPollNext([taken EXCEPT !.counter = packet.cc,
                                             !.buf = st.buf \o packet.data],
                               up, ready, eof)
            ELSE PesReturn(PesOnGap(taken), "pes packet discontinued", <<>>,
                           FALSE)

\* Bounds: how many packets upstream yields, and the packets it yields.
MaxPesPackets == 3
PesPacketChoice ==
    { \* start packets: a length of 2 with one byte of the two; no length; a
      \* length of 1 with a byte more; half a header; no payload
      Packet(FALSE, TRUE, 0, TRUE, <<0, 0, 1, 224, 0, 2, 9>>),
      Packet(FALSE, TRUE, 0, TRUE, <<0, 0, 1, 224, 0, 0, 5>>),
      Packet(FALSE, TRUE, 15, TRUE, <<0, 0, 1, 189, 0, 1, 7, 8>>),
      Packet(FALSE, TRUE, 3, TRUE, <<0, 0, 1>>),
      Packet(FALSE, TRUE, 1, FALSE, <<>>),
      \* continuation packets
      Packet(FALSE, FALSE, 1, TRUE, <<6>>),
      Packet(FALSE, FALSE, 0, TRUE, <<4, 4>>),
      Packet(FALSE, FALSE, 2, TRUE, <<3>>),
      \* no payload, and a transport error
      Packet(FALSE, FALSE, 1, FALSE, <<>>),
      Packet(TRUE, FALSE, 1, FALSE, <<>>) }

\* Buffer::new(stream)
PesInit ==
    /\ pesUp \in SeqUpTo(PesPacketChoice, MaxPesPackets)
    /\ pesPos = 0
    /\ pesState = "Initial"
    /\ pesCounter = 0
    /\ pesBuf = <<>>
    /\ pesOut = <<>>
    /\ pesLast = <<>>

InitPes == PesInit /\ Idle("pes")

\* The last poll_next has returned Ready(None).
PesStopped == pesLast # <<>> /\ pesLast[1].kind = "end"

\* One call of Buffer::poll_next, with upstream ready up to some packet.
PesBufferPollNext ==
    /\ ~PesStopped
    /\ \E ready \in pesPos..Len(pesUp), eof \in BOOLEAN :
         LET st == [state |-> pesState, counter |-> pesCounter, buf |-> pesBuf,
                    pos |-> pesPos]
             r == PesPollNext(st, pesUp, ready, eof)
             item == [kind |-> r.kind, bytes |-> r.bytes, eos |-> r.eos,
                      at |-> r.st.pos, took |-> r.st.pos - pesPos,
                      before |-> [state |-> pesState, counter |-> pesCounter,
                                  buf |-> pesBuf],
                      after |-> [state |-> r.st.state,
                                 counter |-> r.st.counter, buf |-> r.st.buf]]
         IN  /\ (eof => ready = Len(pesUp))
             /\ pesState' = r.st.state
             /\ pesCounter' = r.st.counter
             /\ pesBuf' = r.st.buf
             /\ pesPos' = r.st.pos
             /\ pesOut' = IF r.kind = "pending" THEN pesOut ELSE Append(pesOut, item)
             /\ pesLast' = <<item>>
    /\ UNCHANGED pesUp
    /\ Frame("pes")

PesNext == PesBufferPollNext

SpecPes == InitPes /\ [][PesNext]_vars


(***************************************************************************)
(* The PES packets of the upstream, read off the packets the reassembler   *)
(* has taken. A PES packet begins at a packet with payload_unit_start and  *)
(* a payload, and it ends at the next such packet or at the end of the     *)
(* upstream. Packets with a transport error or without a payload add       *)
(* nothing to it.                                                          *)
(***************************************************************************)
PesIsStart(packet) == ~packet.tei /\ packet.some /\ packet.pusi

PesStarts(up, pos) == {i \in 1..pos : PesIsStart(up[i])}

\* Where the PES packet begun at s ends: at the next start packet taken, at
\* Len(up) + 1 when the end of the upstream was met, at 0 when not yet.
PesUnitEnd(up, s, pos, closed) ==
    IF \E e \in PesStarts(up, pos) : e > s
      THEN CHOOSE e \in PesStarts(up, pos) :
               e > s /\ \A f \in PesStarts(up, pos) : f > s => e <= f
    ELSE IF closed THEN Len(up) + 1
    ELSE 0

\* The packets i..last after a start packet, the last counted continuity
\* counter being `counter`: whether there is a gap, and the payloads of the
\* packets that count (a packet repeating the counter does not).
RECURSIVE PesRunAfter(_, _, _, _)
PesRunAfter(up, i, last, counter) ==
    IF i > last THEN [gap |-> FALSE, bytes |-> <<>>]
    ELSE IF up[i].tei \/ ~up[i].some \/ up[i].cc = counter
      THEN PesRunAfter(up, i + 1, last, counter)
    ELSE IF up[i].cc = (counter + 1) % 16
      THEN LET rest == PesRunAfter(up, i + 1, last, up[i].cc)
           IN  [gap |-> rest.gap, bytes |-> up[i].data \o rest.bytes]
    ELSE [gap |-> TRUE, bytes |-> <<>>]

\* The PES packet begun at s and ended at e: whether a gap interrupted it,
\* and the bytes accumulated for it.
PesUnit(up, s, e) ==
    LET run == PesRunAfter(up, s + 1, e - 1, up[s].cc)
    IN  [gap |-> run.gap, bytes |-> up[s].data \o run.bytes]

\* The 16-bit length field of a PES packet of at least 6 bytes.
PesLengthField(bytes) == bytes[5] * 256 + bytes[6]

\* The PES packets that have ended: their start packets.
PesEnded == {s \in PesStarts(pesUp, pesPos) :
                PesUnitEnd(pesUp, s, pesPos, pesState = "Closed") # 0}

\* The end of the PES packet begun at s, s in PesEnded.
PesEndOf(s) == PesUnitEnd(pesUp, s, pesPos, pesState = "Closed")

\* The emissions that took place when the PES packet ending at e ended.
PesEmittedAt(e) ==
    {k \in DOMAIN pesOut :
        /\ pesOut[k].kind = "pes"
        /\ IF e > Len(pesUp) THEN pesOut[k].eos
                             ELSE ~pesOut[k].eos /\ pesOut[k].at = e}

\* The PES packet an emission belongs to: the one that ended when the
\* emission took place. Its start packet is 0 when there is none.
PesEndAt(k) == IF pesOut[k].eos THEN Len(pesUp) + 1 ELSE pesOut[k].at

PesStartAt(k) ==
    LET before == {s \in PesStarts(pesUp, pesPos) : s < PesEndAt(k)}
    IN  IF before = {} THEN 0
        ELSE CHOOSE s \in before : \A t \in before : t <= s

(***************************************************************************)
(* C6: every PES packet the reassembler emits whose length field (bytes 4  *)
(* and 5) is L > 0 is exactly the first L + 6 bytes accumulated since the  *)
(* payload_unit_start packet that began it; when fewer than L + 6 bytes    *)
(* were accumulated, no bytes are emitted for that packet.                 *)
(***************************************************************************)
PesLengthExact ==
    /\ \A k \in DOMAIN pesOut :
          pesOut[k].kind = "pes" =>
             /\ Len(pesOut[k].bytes) >= 6
             /\ PesLengthField(pesOut[k].bytes) > 0 =>
                  /\ PesStartAt(k) # 0
                  /\ LET unit == PesUnit(pesUp, PesStartAt(k), PesEndAt(k))
                         L == PesLengthField(pesOut[k].bytes)
                     IN  /\ ~unit.gap
                         /\ Len(unit.bytes) >= L + 6
                         /\ pesOut[k].bytes = SubSeq(unit.bytes, 1, L + 6)
    /\ \A s \in PesEnded :
          LET unit == PesUnit(pesUp, s, PesEndOf(s))
          IN  (/\ ~unit.gap
               /\ Len(unit.bytes) >= 6
               /\ PesLengthField(unit.bytes) > 0
               /\ Len(unit.bytes) < PesLengthField(unit.bytes) + 6)
              => PesEmittedAt(PesEndOf(s)) = {}

\* A PES packet of length 1 emitted as 7 of the 8 bytes accumulated, and
\* after it a PES packet of length 2 that ended a byte short.
PesLengthExactWitness ==
    /\ pesPos = 3
    /\ Len(pesOut) = 1
    /\ pesOut[1].kind = "pes"
    /\ pesOut[1].bytes = <<0, 0, 1, 189, 0, 1, 7>>
    /\ pesUp[2].data = <<0, 0, 1, 224, 0, 2, 9>>
    /\ PesIsStart(pesUp[3])

\* C7, as stated: a PES packet with a non-zero length field L is emitted
\* once L + 6 bytes have been accumulated: no poll returns Pending while
\* the buffer holds all L + 6 bytes of such a packet.
PesNonZeroEmittedOnceComplete ==
    (pesLast # <<>> /\ pesLast[1].kind = "pending" /\ pesState = "Buffering")
    => ~(/\ Len(pesBuf) >= 6
         /\ PesLengthField(pesBuf) > 0
         /\ Len(pesBuf) >= PesLengthField(pesBuf) + 6)

(***************************************************************************)
(* C7, amended: a PES packet with a non-zero length field L for which      *)
(* L + 6 bytes have been accumulated is emitted when the next              *)
(* payload_unit_start packet of its PID is taken or when upstream ends,    *)
(* once and not before.                                                    *)
(***************************************************************************)
PesNonZeroEmittedAtNextStart ==
    /\ \A s \in PesEnded :
          LET unit == PesUnit(pesUp, s, PesEndOf(s))
          IN  (/\ ~unit.gap
               /\ Len(unit.bytes) >= 6
               /\ PesLengthField(unit.bytes) > 0
               /\ Len(unit.bytes) >= PesLengthField(unit.bytes) + 6)
              => Cardinality(PesEmittedAt(PesEndOf(s))) = 1
    /\ \A k \in DOMAIN pesOut :
          (/\ pesOut[k].kind = "pes"
           /\ Len(pesOut[k].bytes) >= 6
           /\ PesLengthField(pesOut[k].bytes) > 0)
          => \/ pesOut[k].eos
             \/ pesOut[k].took >= 1 /\ PesIsStart(pesUp[pesOut[k].at])

\* A PES packet of length 2 whose last byte was taken by a poll that
\* returned Pending, emitted by the poll that took the next start packet.
PesNonZeroEmittedAtNextStartWitness ==
    /\ pesPos = 3
    /\ Len(pesOut) = 1
    /\ pesOut[1].kind = "pes"
    /\ pesOut[1].bytes = <<0, 0, 1, 224, 0, 2, 9, 6>>
    /\ ~pesOut[1].eos
    /\ pesOut[1].took = 1

(***************************************************************************)
(* C8: a PES packet whose length field is 0 is emitted exactly when the    *)
(* next payload_unit_start packet of its PID is taken or when upstream     *)
(* ends, and it is then all the bytes accumulated since its own start      *)
(* packet.                                                                 *)
(***************************************************************************)
PesZeroLengthAtNextStart ==
    /\ \A s \in PesEnded :
          LET unit == PesUnit(pesUp, s, PesEndOf(s))
          IN  (~unit.gap /\ Len(unit.bytes) >= 6 /\ PesLengthField(unit.bytes) = 0)
              => /\ Cardinality(PesEmittedAt(PesEndOf(s))) = 1
                 /\ \A k \in PesEmittedAt(PesEndOf(s)) : pesOut[k].bytes = unit.bytes
    /\ \A k \in DOMAIN pesOut :
          (/\ pesOut[k].kind = "pes"
           /\ Len(pesOut[k].bytes) >= 6
           /\ PesLengthField(pesOut[k].bytes) = 0)
          => /\ \/ pesOut[k].eos
                \/ pesOut[k].took >= 1 /\ PesIsStart(pesUp[pesOut[k].at])
             /\ PesStartAt(k) # 0
             /\ pesOut[k].bytes = PesUnit(pesUp, PesStartAt(k), PesEndAt(k)).bytes

\* A PES packet of length 0 emitted at the end of the upstream with the
\* payload of its continuation packet, a repeated packet left out.
PesZeroLengthWitness ==
    /\ pesPos = 3
    /\ pesUp[2].cc = pesUp[1].cc
    /\ pesUp[2].data # <<>>
    /\ Len(pesOut) = 1
    /\ pesOut[1].kind = "pes"
    /\ pesOut[1].eos
    /\ pesOut[1].bytes = <<0, 0, 1, 224, 0, 0, 5, 6>>


(***************************************************************************)
(* ts/demuxer.rs: the demultiplexer, a Sink of packets that hands each     *)
(* packet to the channel registered for its PID. A channel is made by      *)
(* channel(1): it holds one packet at most; its Sender's start_send        *)
(* returns an error when the Receiver is gone, NotReady(item) when the     *)
(* channel is full, and Ready when it has taken the item.                  *)
(***************************************************************************)
\* HashMap::insert / a map with one key set.
MapInsert(map, key, value) ==
    [k \in (DOMAIN map) \cup {key} |-> IF k = key THEN value ELSE map[k]]

\* let (tx, rx) = channel(1);
DmxChannelCapacity == 1
DmxChannel == [queue |-> <<>>, rx |-> "open"]

\* entry.sender.start_send(item) on the channel chan.
DmxSenderStartSend_DropFull(chan, item) ==
    IF chan.rx # "open" THEN [chan |-> chan, ret |-> "Err"]
    ELSE IF Len(chan.queue) >= DmxChannelCapacity THEN [chan |-> chan, ret |-> "Ready"]
    ELSE [chan |-> [chan EXCEPT !.queue = Append(chan.queue, item)], ret |-> "Ready"]
DmxSenderStartSend(chan, item) ==
    IF chan.rx # "open" THEN [chan |-> chan, ret |-> "Err"]
    ELSE IF Len(chan.queue) >= DmxChannelCapacity THEN [chan |-> chan, ret |-> "NotReady"]
    ELSE [chan |-> [chan EXCEPT !.queue = Append(chan.queue, item)], ret |-> "Ready"]

\* Register::try_register(pid) on Inner and the channels: Inner and the
\* channels afterwards, and the result.
DmxTryRegister_OverClosed(inner, chans, pid) ==
    IF inner.closed THEN [inner |-> inner, chans |-> chans, ret |-> "Closed"]
    ELSE IF pid \in DOMAIN inner.senders /\ ~inner.senders[pid].closed
      THEN [inner |-> inner, chans |-> chans, ret |-> "AlreadyRegistered"]
    ELSE [inner |-> [inner EXCEPT !.senders = MapInsert(inner.senders, pid,
                                                         [closed |-> FALSE]),
                                  !.num = inner.num + 1],
          chans |-> MapInsert(chans, pid, DmxChannel),
          ret |-> "Ok"]
DmxTryRegister(inner, chans, pid) ==
    IF inner.closed THEN [inner |-> inner, chans |-> chans, ret |-> "Closed"]
    ELSE IF pid \in DOMAIN inner.senders
      THEN [inner |-> inner, chans |-> chans, ret |-> "AlreadyRegistered"]
    ELSE [inner |-> [inner EXCEPT !.senders = MapInsert(inner.senders, pid,
                                                         [closed |-> FALSE]),
                                  !.num = inner.num + 1],
          chans |-> MapInsert(chans, pid, DmxChannel),
          ret |-> "Ok"]

\* if inner.num == 0 { return Err(DemuxError::Closed); }
DmxNoneOpen_Flag(inner) == inner.closed
DmxNoneOpen(inner) == inner.num = 0

\* The Err(_) arm of entry.sender.start_send: entry.closed = true.
DmxEntryOnError_Keep(entry) == entry
DmxEntryOnError(entry) == [entry EXCEPT !.closed = TRUE]

\* Demuxer::start_send(item) on Inner and the channels: Inner and the
\* channels afterwards, and the result ("Closed" for
\* Err(DemuxError::Closed)).
DmxStartSend(inner, chans, item) ==
    IF DmxNoneOpen(inner) THEN [inner |-> inner, chans |-> chans, ret |-> "Closed"]
    ELSE IF item.pid \in DOMAIN inner.senders THEN
        IF inner.senders[item.pid].closed
          THEN [inner |-> inner, chans |-> chans, ret |-> "Ready"]
        ELSE LET sent == DmxSenderStartSend(chans[item.pid], item)
             IN  IF sent.ret = "Err"
                   THEN [inner |-> [inner EXCEPT
                                      !.senders[item.pid] =
                                          DmxEntryOnError(inner.senders[item.pid]),
                                      !.num = inner.num - 1],
                         chans |-> chans, ret |-> "Ready"]
                   ELSE [inner |-> inner,
                         chans |-> [chans EXCEPT ![item.pid] = sent.chan],
                         ret |-> sent.ret]
    ELSE [inner |-> inner, chans |-> chans, ret |-> "Ready"]

\* Bounds: the PIDs of the packets and of the registrations, and how many
\* times start_send is called.
DmxPid == {0, 256, 257}
MaxDmxSends == 3

DmxInner == [num |-> dmxNum, senders |-> dmxSenders, closed |-> dmxClosed]

\* Demuxer::new()
DmxInit ==
    /\ dmxNum = 0
    /\ dmxSenders = <<>>
    /\ dmxClosed = FALSE
    /\ dmxAlive = TRUE
    /\ dmxChan = <<>>
    /\ dmxRecvd = <<>>
    /\ dmxSends = 0
    /\ dmxLast = <<>>
    /\ dmxLastReg = <<>>
    /\ dmxEnded = {}
    /\ dmxDue = <<>>
    /\ dmxBuffered = <<>>

InitDmx == DmxInit /\ Idle("dmx")

\* A holder of a Register calls try_register(pid).
DmxRegister ==
    /\ \E pid \in DmxPid :
         LET r == DmxTryRegister(DmxInner, dmxChan, pid)
         IN  /\ dmxNum' = r.inner.num
             /\ dmxSenders' = r.inner.senders
             /\ dmxClosed' = r.inner.closed
             /\ dmxChan' = r.chans
             /\ dmxRecvd' = IF r.ret = "Ok" THEN MapInsert(dmxRecvd, pid, <<>>)
                                            ELSE dmxRecvd
             /\ dmxDue' = IF r.ret = "Ok" THEN MapInsert(dmxDue, pid, <<>>)
                                          ELSE dmxDue
             /\ dmxLastReg' = <<[ret |-> r.ret, alive |-> dmxAlive,
                                 same |-> r.inner = DmxInner /\ r.chans = dmxChan]>>
    /\ UNCHANGED <<dmxAlive, dmxSends, dmxLast, dmxEnded, dmxBuffered>>
    /\ Frame("dmx")

\* Forward, of the stream forwarded into the Demuxer, calls start_send: with
\* the item it was handed back, if any, and with the next item of the
\* stream otherwise.
DmxSend ==
    /\ dmxAlive
    /\ dmxSends < MaxDmxSends
    /\ \E pid \in DmxPid :
         LET item == IF dmxBuffered # <<>> THEN dmxBuffered[1]
                                          ELSE [pid |-> pid, seq |-> dmxSends + 1]
             r == DmxStartSend(DmxInner, dmxChan, item)
         IN  /\ dmxNum' = r.inner.num
             /\ dmxSenders' = r.inner.senders
             /\ dmxClosed' = r.inner.closed
             /\ dmxChan' = r.chans
             /\ dmxSends' = dmxSends + 1
             /\ dmxLast' = <<[item |-> item, ret |-> r.ret,
                              before |-> [inner |-> DmxInner, chans |-> dmxChan],
                              after |-> [inner |-> r.inner, chans |-> r.chans]]>>
             /\ dmxBuffered' = IF r.ret = "NotReady" THEN <<item>> ELSE <<>>
             /\ dmxDue' = IF /\ r.ret = "Ready"
                             /\ item.pid \in DOMAIN dmxSenders
                             /\ dmxChan[item.pid].rx = "open"
                             THEN [dmxDue EXCEPT ![item.pid] = Append(@, item)]
                             ELSE dmxDue
    /\ UNCHANGED <<dmxAlive, dmxRecvd, dmxLastReg, dmxEnded>>
    /\ Frame("dmx")

\* The Receiver of a PID takes the packet in its channel.
DmxReceive ==
    /\ \E pid \in DOMAIN dmxChan :
         /\ dmxChan[pid].rx = "open"
         /\ dmxChan[pid].queue # <<>>
         /\ dmxRecvd' = [dmxRecvd EXCEPT ![pid] = Append(@, Head(dmxChan[pid].queue))]
         /\ dmxChan' = [dmxChan EXCEPT ![pid].queue = Tail(@)]
    /\ UNCHANGED <<dmxNum, dmxSenders, dmxClosed, dmxAlive, dmxSends, dmxLast,
                   dmxLastReg, dmxEnded, dmxDue, dmxBuffered>>
    /\ Frame("dmx")

\* Whether the Receiver of a PID is told the end of its stream when it
\* polls: its channel is empty and the Sender, which only the Entry of the
\* PID holds, is gone.
DmxReceiverAtEnd(senders, chans, pid) ==
    /\ chans[pid].rx = "open"
    /\ chans[pid].queue = <<>>
    /\ pid \notin DOMAIN senders

\* The Receiver of a PID polls and is told the end of its stream.
DmxReceiveEnd ==
    /\ \E pid \in DOMAIN dmxChan :
         /\ DmxReceiverAtEnd(dmxSenders, dmxChan, pid)
         /\ pid \notin dmxEnded
         /\ dmxEnded' = dmxEnded \cup {pid}
    /\ UNCHANGED <<dmxNum, dmxSenders, dmxClosed, dmxAlive, dmxChan, dmxRecvd, dmxSends,
                   dmxLast, dmxLastReg, dmxDue, dmxBuffered>>
    /\ Frame("dmx")

\* The Receiver of a PID is dropped, and with it what its channel holds.
DmxReceiverDrop ==
    /\ \E pid \in DOMAIN dmxChan :
         /\ dmxChan[pid].rx = "open"
         /\ dmxChan' = [dmxChan EXCEPT ![pid] = [queue |-> <<>>, rx |-> "closed"]]
    /\ UNCHANGED <<dmxNum, dmxSenders, dmxClosed, dmxAlive, dmxRecvd, dmxSends, dmxLast,
                   dmxLastReg, dmxEnded, dmxDue, dmxBuffered>>
    /\ Frame("dmx")

\* Drop for Demuxer, on Inner: inner.senders.clear(); inner.closed = true.
DmxOnDrop_KeepOpen(inner) == [inner EXCEPT !.senders = <<>>]
DmxOnDrop(inner) == [inner EXCEPT !.senders = <<>>, !.closed = TRUE]

\* The Demuxer is dropped, as it is when the stream forwarded into it ends
\* or start_send fails: Forward holds no item then.
DmxDrop ==
    /\ dmxAlive
    /\ dmxBuffered = <<>>
    /\ dmxAlive' = FALSE
    /\ dmxNum' = DmxOnDrop(DmxInner).num
    /\ dmxSenders' = DmxOnDrop(DmxInner).senders
    /\ dmxClosed' = DmxOnDrop(DmxInner).closed
    /\ UNCHANGED <<dmxChan, dmxRecvd, dmxSends, dmxLast, dmxLastReg, dmxEnded, dmxDue,
                   dmxBuffered>>
    /\ Frame("dmx")

DmxNext ==
    \/ DmxRegister
    \/ DmxSend
    \/ DmxReceive
    \/ DmxReceiverDrop
    \/ DmxReceiveEnd
    \/ DmxDrop

SpecDmx == InitDmx /\ [][DmxNext]_vars


(***************************************************************************)
(* What a start_send met: the sinks registered before it, those of them    *)
(* whose receiving end had closed, and where its item is afterwards.       *)
(***************************************************************************)
DmxRegisteredBefore(l) == DOMAIN l.before.inner.senders

DmxClosedBefore(l) == {p \in DmxRegisteredBefore(l) : l.before.chans[p].rx = "closed"}

\* The sinks whose channel holds the item or whose receiver has received it.
DmxHolders(item) ==
    {p \in DOMAIN dmxChan :
        \/ \E i \in DOMAIN dmxChan[p].queue : dmxChan[p].queue[i] = item
        \/ \E i \in DOMAIN dmxRecvd[p] : dmxRecvd[p][i] = item}

\* C9, as stated: once the receiving end of a registered PID's sink has
\* closed, the send keeps succeeding for every later packet of every PID,
\* also when it was the last open sink.
DmxClosedSinkNeverFails ==
    \A i \in DOMAIN dmxLast :
        DmxClosedBefore(dmxLast[i]) # {} => dmxLast[i].ret # "Closed"

(***************************************************************************)
(* C9, amended: once the receiving end of a registered PID's sink has      *)
(* closed, later packets for that PID are dropped, and the send succeeds   *)
(* for every later packet of every PID as long as a registered sink is     *)
(* still open or has not yet been found closed by a send; the send that    *)
(* finds the last sink closed succeeds, and every send after it fails with *)
(* DemuxError::Closed.                                                     *)
(***************************************************************************)
DmxFailsOnlyWithoutOpenSink ==
    \A i \in DOMAIN dmxLast :
        LET l == dmxLast[i]
            unmarked == {p \in DmxRegisteredBefore(l) : ~l.before.inner.senders[p].closed}
        IN  DmxClosedBefore(l) # {} =>
              \* packets for the closed sink are dropped, with success
              /\ l.item.pid \in DmxClosedBefore(l) =>
                   /\ l.ret = (IF unmarked = {} THEN "Closed" ELSE "Ready")
                   /\ l.after.chans = l.before.chans
                   /\ DmxHolders(l.item) = {}
              \* the send fails when every sink has been found closed, and
              \* only then
              /\ l.ret = "Closed" <=> unmarked = {}
              /\ unmarked = {} => DmxClosedBefore(l) = DmxRegisteredBefore(l)
              \* a sink is found closed by the send that meets its closed channel
              /\ {p \in DmxRegisteredBefore(l) : ~l.after.inner.senders[p].closed}
                   = unmarked \ (DmxClosedBefore(l) \cap {l.item.pid})

\* A packet for a closed sink dropped with success while another sink is
\* open, the closed sink having been found closed by an earlier send.
DmxFailsOnlyWithoutOpenSinkWitness ==
    /\ dmxLast # <<>>
    /\ dmxLast[1].item.pid \in DmxClosedBefore(dmxLast[1])
    /\ dmxLast[1].before.inner.senders[dmxLast[1].item.pid].closed
    /\ dmxLast[1].ret = "Ready"
    /\ DmxClosedBefore(dmxLast[1]) # DmxRegisteredBefore(dmxLast[1])

\* C10, as stated: a packet whose PID has no registered sink is dropped
\* and the send reports Ready, whatever sinks are or are not registered.
DmxUnknownPidReady ==
    \A i \in DOMAIN dmxLast :
        dmxLast[i].item.pid \notin DmxRegisteredBefore(dmxLast[i])
        => dmxLast[i].ret = "Ready"

(***************************************************************************)
(* C10, amended: a packet whose PID has no registered sink is dropped: no  *)
(* sink receives it, and the routing table and the open-sink count are     *)
(* unchanged. The send reports Ready when the open-sink count is not 0,    *)
(* and fails with DemuxError::Closed when it is 0, as it is when no sink   *)
(* is registered.                                                          *)
(***************************************************************************)
DmxUnknownPidDropped ==
    \A i \in DOMAIN dmxLast :
        LET l == dmxLast[i]
        IN  l.item.pid \notin DmxRegisteredBefore(l) =>
              /\ l.ret = (IF l.before.inner.num # 0 THEN "Ready" ELSE "Closed")
              /\ DmxRegisteredBefore(l) = {} => l.before.inner.num = 0
              /\ l.after.inner.senders = l.before.inner.senders
              /\ l.after.inner.num = l.before.inner.num
              /\ l.after.chans = l.before.chans
              /\ DmxHolders(l.item) = {}

\* A packet of an unregistered PID dropped with Ready, a sink of another
\* PID being registered and holding a packet of its own.
DmxUnknownPidDroppedWitness ==
    /\ dmxLast # <<>>
    /\ dmxLast[1].item.pid \notin DmxRegisteredBefore(dmxLast[1])
    /\ dmxLast[1].ret = "Ready"
    /\ \E p \in DmxRegisteredBefore(dmxLast[1]) : dmxLast[1].before.chans[p].queue # <<>>


(***************************************************************************)
(* cmd/clean.rs: run. The input is framed into packets, packets with a     *)
(* transport error are stripped, the keep-set is discovered through a      *)
(* Cueable, and the cued-up stream goes through dump_packets to the        *)
(* writer. Which packets make find_keep_pids resolve and with which set is *)
(* left open here: it resolves after any number of packets, the first PAT  *)
(* packet among them, and with any of the sets of ClnPidsChoice.           *)
(***************************************************************************)
\* s.filter(|x| !x.transport_error_indicator)
ClnStripErrorPackets_All(raw) == TRUE
ClnStripErrorPackets(raw) == ~PacketTei(raw)

\* The strip_error_packets stream over the input from pos on: the index of
\* the next packet it yields, 0 when it ends.
RECURSIVE ClnNextPacket(_, _)
ClnNextPacket(in, pos) ==
    IF pos >= Len(in) THEN 0
    ELSE IF ClnStripErrorPackets(in[pos + 1]) THEN pos + 1
    ELSE ClnNextPacket(in, pos + 1)

\* The closure of dump_packets' filter_map on a packet: whether dump_pat
\* returned, and the frames that go to the writer (one or none).
ClnDumpPacket(raw, pids) ==
    IF PacketPid(raw) = PAT_PID
      THEN LET pat == DumpPat(raw, pids)
           IN  [ok |-> pat.ok, frames |-> IF pat.ok THEN <<pat.bytes>> ELSE <<>>]
    ELSE IF PacketPid(raw) \in pids THEN [ok |-> TRUE, frames |-> <<raw>>]
    ELSE [ok |-> TRUE, frames |-> <<>>]

\* Bounds: how many packets the input has, the packets, and the keep-sets.
MaxClnPackets == 3
ClnPacketChoice ==
    { \* PAT packets: one behind an adaptation field, one whose pointer
      \* field points past the packet
      PatPacket(<<2>>, 0, <<<<0, 16>>, <<257, 496>>, <<258, 752>>>>),
      TsPacket(FALSE, TRUE, PAT_PID, <<>>, 1, <<200>>),
      \* packets of other PIDs
      TsPacket(FALSE, TRUE, 496, <<>>, 0, <<0, 2, 176, 13>>),
      TsPacket(FALSE, FALSE, 752, <<>>, 5, <<1, 2, 3>>),
      \* packets with a transport error
      TsPacket(TRUE, FALSE, 496, <<>>, 1, <<9, 9>>),
      TsPacket(TRUE, TRUE, PAT_PID, <<>>, 2, <<0>>) }
ClnPidsChoice == {{}, {496}, {16, 496}}

\* FramedRead::new(input, TSPacketDecoder::new()), strip_error_packets,
\* cueable
ClnInit ==
    /\ clnIn \in SeqUpTo(ClnPacketChoice, MaxClnPackets)
    /\ clnPos = 0
    /\ clnItems = <<>>
    /\ clnCued = 0
    /\ clnPids = {}
    /\ clnOut = <<>>
    /\ clnPhase = "discover"

InitCln == ClnInit /\ Idle("cln")

\* find_keep_pids polls the Cueable, which yields and records a packet.
ClnDiscoverPoll ==
    /\ clnPhase = "discover"
    /\ ClnNextPacket(clnIn, clnPos) # 0
    /\ clnPos' = ClnNextPacket(clnIn, clnPos)
    /\ clnItems' = CueablePushBack(clnItems, clnIn[ClnNextPacket(clnIn, clnPos)])
    /\ UNCHANGED <<clnIn, clnCued, clnPids, clnOut, clnPhase>>
    /\ Frame("cln")

\* find_keep_pids polls the Cueable, which ends, and resolves with an error.
ClnDiscoverFail ==
    /\ clnPhase = "discover"
    /\ ClnNextPacket(clnIn, clnPos) = 0
    /\ clnPos' = Len(clnIn)
    /\ clnPhase' = "failed"
    /\ UNCHANGED <<clnIn, clnItems, clnCued, clnPids, clnOut>>
    /\ Frame("cln")

\* find_keep_pids resolves with a keep-set; s.cue_up().
ClnCueUp ==
    /\ clnPhase = "discover"
    /\ \E i \in DOMAIN clnItems :
         PacketPid(clnItems[i]) = PAT_PID /\ PacketPusi(clnItems[i])
    /\ clnPids' \in ClnPidsChoice
    /\ clnCued' = Len(clnItems)
    /\ clnPhase' = "dump"
    /\ UNCHANGED <<clnIn, clnPos, clnItems, clnOut>>
    /\ Frame("cln")

\* dump_packets takes the next packet of the Cued stream: the front of the
\* queue, then the stream under it; the packet goes through the filter_map
\* and its frame to the writer.
ClnDumpPackets ==
    /\ clnPhase = "dump"
    /\ LET next == ClnNextPacket(clnIn, clnPos)
           some == clnItems # <<>> \/ next # 0
           raw == IF clnItems # <<>> THEN CuedPopFront(clnItems).item ELSE clnIn[next]
           dumped == ClnDumpPacket(raw, clnPids)
       IN  /\ clnItems' = IF clnItems # <<>> THEN CuedPopFront(clnItems).rest ELSE <<>>
           /\ clnPos' = IF clnItems # <<>> THEN clnPos
                        ELSE IF next # 0 THEN next ELSE Len(clnIn)
           /\ clnOut' = IF some THEN clnOut \o dumped.frames ELSE clnOut
           /\ clnPhase' = IF ~some THEN "done"
                          ELSE IF dumped.ok THEN "dump" ELSE "panicked"
    /\ UNCHANGED <<clnIn, clnCued, clnPids>>
    /\ Frame("cln")

ClnNext ==
    \/ ClnDiscoverPoll
    \/ ClnDiscoverFail
    \/ ClnCueUp
    \/ ClnDumpPackets

SpecCln == InitCln /\ [][ClnNext]_vars

\* The frames expected for a sequence of packets, each packet of PID 0
\* rewritten and each packet of a PID of the keep-set as it is, up to the
\* first packet that dump_pat panics on.
RECURSIVE ClnExpected(_, _)
ClnExpected(packets, pids) ==
    IF packets = <<>> THEN [frames |-> <<>>, panicked |-> FALSE]
    ELSE LET raw == Head(packets)
             rest == ClnExpected(Tail(packets), pids)
         IN  IF PacketPid(raw) = PAT_PID
               THEN IF DumpPat(raw, pids).ok
                      THEN [frames |-> <<DumpPat(raw, pids).bytes>> \o rest.frames,
                            panicked |-> rest.panicked]
                      ELSE [frames |-> <<>>, panicked |-> TRUE]
             ELSE IF PacketPid(raw) \in pids
               THEN [frames |-> <<raw>> \o rest.frames, panicked |-> rest.panicked]
             ELSE rest

ClnHasError(raw) == raw[2] >= 128

ClnNoError(raw) == raw[2] < 128

\* C2, as stated: the byte stream written by Clean is, in source order and
\* from the first packet of the input, the rewritten packet of every packet
\* with PID 0 and the unchanged bytes of every packet whose PID is in the
\* keep-set.
ClnWritesEveryKeptPacket ==
    clnPhase = "done" => clnOut = ClnExpected(clnIn, clnPids).frames

(***************************************************************************)
(* C2, amended: once the keep-set is discovered, the byte stream written   *)
(* by Clean is, in source order and from the first packet of the input,    *)
(* the rewritten 188-byte packet of every packet with PID 0 and the        *)
(* unchanged 188 bytes of every packet whose PID is in the keep-set, of    *)
(* the packets without transport_error_indicator; every other packet is    *)
(* omitted. Packets taken while the keep-set was being discovered are      *)
(* included through the replay: none is lost, duplicated or reordered. The *)
(* stream ends before the first PID 0 packet that dump_pat cannot rewrite  *)
(* (its section does not lie within the packet), where the program panics. *)
(***************************************************************************)
ClnWritesKeptPacketsWithoutError ==
    clnPhase \in {"dump", "done", "panicked"} =>
        LET good == SelectSeq(clnIn, ClnNoError)
            taken == Len(SelectSeq(SubSeq(clnIn, 1, clnPos), ClnNoError)) - Len(clnItems)
            expected == ClnExpected(SubSeq(good, 1, taken), clnPids)
        IN  /\ clnOut = expected.frames
            /\ clnPhase = "panicked" <=> expected.panicked
            /\ clnPhase = "done" => taken = Len(good)
            /\ \A i \in DOMAIN clnOut : Len(clnOut[i]) = TS_PACKET_LENGTH

\* A PAT packet rewritten, a packet of the keep-set with a transport error
\* left out and one without written as it is, the PAT packet and the kept
\* packet replayed.
ClnWritesKeptPacketsWitness ==
    /\ clnPhase = "done"
    /\ Len(clnIn) = 3
    /\ clnCued = 2
    /\ ClnHasError(clnIn[2])
    /\ PacketPid(clnIn[2]) \in clnPids
    /\ Len(clnOut) = 2
    /\ clnOut[1] # clnIn[1]
    /\ clnOut[2] = clnIn[3]


(***************************************************************************)
(* C11: when the demuxer is dropped, as it is when upstream ends, every    *)
(* registered sink is closed: each receiver is told the end of its stream  *)
(* after the packets already delivered to it, and every later attempt to   *)
(* register fails with Closed.                                             *)
(***************************************************************************)
DmxDropClosesSinks ==
    /\ ~dmxAlive =>
          \* no sender is left, so a receiver that has emptied its channel
          \* is told the end
          /\ \A pid \in DOMAIN dmxChan :
                /\ pid \notin DOMAIN dmxSenders
                /\ (dmxChan[pid].rx = "open" /\ dmxChan[pid].queue = <<>>)
                     => DmxReceiverAtEnd(dmxSenders, dmxChan, pid)
          /\ \A i \in DOMAIN dmxLastReg :
                ~dmxLastReg[i].alive => dmxLastReg[i].ret = "Closed" /\ dmxLastReg[i].same
    \* the end comes after every item due to the receiver, and not before the drop
    /\ \A pid \in dmxEnded :
          /\ ~dmxAlive
          /\ dmxRecvd[pid] = dmxDue[pid]

\* A receiver told the end after a packet it had been sent, and an attempt
\* to register after the drop.
DmxDropClosesSinksWitness ==
    /\ ~dmxAlive
    /\ \E pid \in dmxEnded : Len(dmxRecvd[pid]) >= 1
    /\ dmxLastReg # <<>>
    /\ ~dmxLastReg[1].alive


(***************************************************************************)
(* C12: under every interleaving of the forwarding task with the receiving *)
(* tasks, each registered sink receives exactly the packets of its PID     *)
(* that were sent while it was registered and open, in source order,       *)
(* without loss or duplication; a packet that the full channel refuses is  *)
(* handed back to the caller for retry and is not dropped.                 *)
(***************************************************************************)
DmxDeliversInOrder ==
    /\ \A pid \in DOMAIN dmxChan :
          \* what was received and what waits in the channel is what was due
          /\ dmxChan[pid].rx = "open" => dmxRecvd[pid] \o dmxChan[pid].queue = dmxDue[pid]
          /\ IsPrefix(dmxRecvd[pid], dmxDue[pid])
          \* packets of the PID only, each once, in the order of the source
          /\ \A i \in DOMAIN dmxDue[pid] :
                /\ dmxDue[pid][i].pid = pid
                /\ \A j \in DOMAIN dmxDue[pid] :
                      i < j => dmxDue[pid][i].seq < dmxDue[pid][j].seq
    /\ \A i \in DOMAIN dmxLast :
          LET l == dmxLast[i]
              open == /\ l.item.pid \in DOMAIN l.before.inner.senders
                      /\ l.before.chans[l.item.pid].rx = "open"
          IN  \* a packet for an open sink is taken or handed back
              /\ open => l.ret \in {"Ready", "NotReady"}
              /\ (open /\ l.ret = "Ready") =>
                    l.after.chans[l.item.pid].queue
                        = Append(l.before.chans[l.item.pid].queue, l.item)
              \* handed back by a full channel only, with nothing changed,
              \* and held for the next start_send
              /\ l.ret = "NotReady" =>
                    /\ open
                    /\ l.before.chans[l.item.pid].queue # <<>>
                    /\ l.after = l.before
              /\ dmxBuffered = (IF l.ret = "NotReady" THEN <<l.item>> ELSE <<>>)

\* A packet handed back by the full channel, sent again after the receiver
\* had taken the packet before it, and received.
DmxDeliversInOrderWitness ==
    /\ dmxSends = 3
    /\ \E pid \in DOMAIN dmxRecvd :
          /\ Len(dmxRecvd[pid]) = 2
          /\ dmxRecvd[pid][2].seq = 2


(***************************************************************************)
(* psi/pat.rs and psi/pmt.rs: the section parsers                          *)
(***************************************************************************)
STREAM_TYPE_H264 == 27
PROGRAM_ASSOCIATION_SECTION == 0
TS_PROGRAM_MAP_SECTION == 2

\* The loop of ProgramAssociationSection::parse over the map: every entry
\* is inserted in the HashMap, a later entry replacing an earlier one of
\* the same program_number.
RECURSIVE PatParseMap(_, _)
PatParseMap(map, pa) ==
    IF Len(map) = 0 THEN pa
    ELSE PatParseMap(SliceFrom(map, 4), MapInsert(pa, MapProgramNumber(map), MapPid(map)))

\* ProgramAssociationSection::parse: program_association, or an error.
PatParse(bytes) ==
    LET sl == SectionLength(bytes)
    IN  IF At(bytes, 0) # 0 THEN [ok |-> FALSE, pa |-> <<>>]
        ELSE IF Len(bytes) < 3 + sl THEN [ok |-> FALSE, pa |-> <<>>]
        ELSE IF (3 + sl - 4 - 8) % 4 # 0 THEN [ok |-> FALSE, pa |-> <<>>]
        ELSE [ok |-> TRUE, pa |-> PatParseMap(Slice(bytes, 8, 3 + sl - 4), <<>>)]

\* The loops over descriptors: each is descriptor_length + 2 bytes long.
\* "ok", "err" for a bail and "panic" for a slice out of range.
RECURSIVE PmtDescriptors(_)
PmtDescriptors(bytes) ==
    IF Len(bytes) = 0 THEN "ok"
    ELSE IF Len(bytes) < 2 THEN "err"
    ELSE IF 2 + At(bytes, 1) > Len(bytes) THEN "panic"
    ELSE PmtDescriptors(SliceFrom(bytes, 2 + At(bytes, 1)))

\* The loop of StreamInfo::parse over the streams: [ret, info].
RECURSIVE PmtStreamInfo(_, _)
PmtStreamInfo(bytes, info) ==
    IF Len(bytes) = 0 THEN [ret |-> "ok", info |-> info]
    ELSE IF Len(bytes) < 5 THEN [ret |-> "err", info |-> <<>>]
    ELSE
    LET streamType == At(bytes, 0)
        elementaryPid == BitOr(Shl(BitAnd(At(bytes, 1), 31), 8), At(bytes, 2))
        esInfoLength == BitOr(Shl(BitAnd(At(bytes, 3), 15), 8), At(bytes, 4))
    IN  IF Len(bytes) < 5 + esInfoLength THEN [ret |-> "err", info |-> <<>>]
        ELSE
    LET d == PmtDescriptors(Slice(bytes, 5, 5 + esInfoLength))
    IN  IF d # "ok" THEN [ret |-> d, info |-> <<>>]
        ELSE PmtStreamInfo(SliceFrom(bytes, 5 + esInfoLength),
                           Append(info, [stream_type |-> streamType,
                                         elementary_pid |-> elementaryPid]))

\* TSProgramMapSection::parse: [ret, pcr_pid, stream_info].
PmtParse(bytes) ==
    LET sl == SectionLength(bytes)
        bad(r) == [ret |-> r, pcr_pid |-> 0, stream_info |-> <<>>]
    IN  IF At(bytes, 0) # 2 THEN bad("err")
        ELSE IF Len(bytes) < 12 THEN bad("panic")
        ELSE
    LET pcrPid == BitOr(Shl(BitAnd(At(bytes, 8), 31), 8), At(bytes, 9))
        programInfoLength == BitOr(Shl(BitAnd(At(bytes, 10), 15), 8), At(bytes, 11))
    IN  IF Len(bytes) < 3 + sl \/ Len(bytes) < 12 + programInfoLength THEN bad("err")
        ELSE
    LET d == PmtDescriptors(Slice(bytes, 12, 12 + programInfoLength))
    IN  IF d # "ok" THEN bad(d)
        ELSE IF 12 + programInfoLength > 3 + sl - 4 THEN bad("panic")
        ELSE
    LET si == PmtStreamInfo(Slice(bytes, 12 + programInfoLength, 3 + sl - 4), <<>>)
    IN  IF si.ret # "ok" THEN bad(si.ret)
        ELSE [ret |-> "ok", pcr_pid |-> pcrPid, stream_info |-> si.info]

(***************************************************************************)
(* Sections of the input: ISO/IEC 13818-1 2.4.4.8 as pmt.rs reads it       *)
(***************************************************************************)
\* One stream of a program map: type, PID with its three reserved bits set,
\* ES_info_length with its four reserved bits set.
PmtStreamBytes(s, esInfoLength) ==
    <<s[1], 224 + Shr(s[2], 8), s[2] % 256, 240 + Shr(esInfoLength, 8), esInfoLength % 256>>

RECURSIVE PmtStreamsBytes(_, _)
PmtStreamsBytes(ss, lastEsInfoLength) ==
    IF ss = <<>> THEN <<>>
    ELSE PmtStreamBytes(Head(ss), IF Len(ss) = 1 THEN lastEsInfoLength ELSE 0)
         \o PmtStreamsBytes(Tail(ss), lastEsInfoLength)

\* The section of the record rec: [pid, table, pn, pcr, streams, eil], eil
\* being the ES_info_length written in the last stream (no descriptor
\* follows it). The four bytes of the CRC are read and never checked.
PmtSection(rec) ==
    LET sl == 9 + 5 * Len(rec.streams) + 4
        body == <<rec.table, 176 + Shr(sl, 8), sl % 256, Shr(rec.pn, 8), rec.pn % 256,
                  193, 0, 0, 224 + Shr(rec.pcr, 8), rec.pcr % 256, 240, 0>>
                \o PmtStreamsBytes(rec.streams, rec.eil)
    IN  body \o <<0, 0, 0, 0>>


(***************************************************************************)
(* cmd/clean.rs: find_pids_from_pat, find_keep_pids_from_pmt(s),           *)
(* find_keep_pids                                                          *)
(***************************************************************************)
\* The closure of find_pids_from_pat on one section of PID 0: <<>> for
\* None, or <<[network_pid, pmt_pids]>>.
FindPidsFromPat(bytes) ==
    IF At(bytes, 0) # PROGRAM_ASSOCIATION_SECTION THEN <<>>
    ELSE
    LET pas == PatParse(bytes)
    IN  IF ~pas.ok THEN <<>>
        ELSE <<[network_pid |-> IF 0 \in DOMAIN pas.pa THEN <<pas.pa[0]>> ELSE <<>>,
                pmt_pids |-> {pas.pa[pn] : pn \in (DOMAIN pas.pa) \ {0}}]>>

\* The loop over pms.stream_info: the set returned.
RECURSIVE KeepPidsOfStreams_SkipH264(_, _)
KeepPidsOfStreams_SkipH264(info, pids) ==
    IF info = <<>> THEN pids
    ELSE IF Head(info).stream_type = STREAM_TYPE_H264
         THEN KeepPidsOfStreams_SkipH264(Tail(info), pids)
    ELSE KeepPidsOfStreams_SkipH264(Tail(info), pids \cup {Head(info).elementary_pid})

RECURSIVE KeepPidsOfStreams(_, _)
KeepPidsOfStreams(info, pids) ==
    IF info = <<>> THEN pids
    ELSE IF Head(info).stream_type = STREAM_TYPE_H264 THEN {}
    ELSE KeepPidsOfStreams(Tail(info), pids \cup {Head(info).elementary_pid})

\* The closure of find_keep_pids_from_pmt on one section of pmt_pid: <<>>
\* for None, <<pids>> for Some(pids), "panic" when the parser panics.
FindKeepPidsFromPmt(pmtPid, bytes) ==
    IF At(bytes, 0) # TS_PROGRAM_MAP_SECTION THEN <<>>
    ELSE
    LET pms == PmtParse(bytes)
    IN  IF pms.ret = "panic" THEN "panic"
        ELSE IF pms.ret = "err" THEN <<>>
        ELSE <<KeepPidsOfStreams(pms.stream_info, {pmtPid, pms.pcr_pid})>>

\* Bounds and inputs of the keep-set specification.
MaxKpsSections == 3
KpsPatChoice ==
    { <<<<0, 16>>, <<257, 496>>, <<258, 752>>>>,
      <<<<257, 496>>, <<258, 752>>>>,
      <<<<258, 752>>, <<0, 16>>>>,
      <<<<0, 16>>>> }
KpsIndexChoice == {<<>>, <<0>>}
KpsSectionChoice ==
    { [pid |-> 496, table |-> 2, pn |-> 257, pcr |-> 256,
       streams |-> <<<<2, 256>>, <<15, 257>>>>, eil |-> 0],
      [pid |-> 496, table |-> 2, pn |-> 257, pcr |-> 258,
       streams |-> <<<<2, 259>>>>, eil |-> 0],
      [pid |-> 496, table |-> 66, pn |-> 257, pcr |-> 260,
       streams |-> <<<<2, 261>>>>, eil |-> 0],
      [pid |-> 752, table |-> 2, pn |-> 258, pcr |-> 512,
       streams |-> <<<<27, 512>>, <<15, 513>>>>, eil |-> 0],
      [pid |-> 752, table |-> 2, pn |-> 258, pcr |-> 514,
       streams |-> <<<<15, 515>>, <<27, 514>>>>, eil |-> 0],
      [pid |-> 752, table |-> 2, pn |-> 258, pcr |-> 516,
       streams |-> <<<<2, 516>>>>, eil |-> 7],
      [pid |-> 752, table |-> 2, pn |-> 258, pcr |-> 518,
       streams |-> <<<<2, 518>>, <<15, 256>>>>, eil |-> 0] }

KpsInit ==
    /\ kpsPat \in KpsPatChoice
    /\ kpsIndex \in KpsIndexChoice
    /\ kpsSrc \in SeqUpTo(KpsSectionChoice, MaxKpsSections)
    /\ kpsPatBytes = PatSection(kpsPat)
    /\ kpsStream = [i \in DOMAIN kpsSrc |->
                       [pid |-> kpsSrc[i].pid, bytes |-> PmtSection(kpsSrc[i])]]
    /\ kpsPos = 0
    /\ kpsPhase = "pat"
    /\ kpsNetwork = <<>>
    /\ kpsPmtPids = {}
    /\ kpsTxMap = {}
    /\ kpsTask = <<>>
    /\ kpsChan = <<>>
    /\ kpsOut = {}
    /\ kpsKeep = {}

InitKps == KpsInit /\ Idle("kps")

\* find_pids_from_pat resolves with the first section of PID 0 its closure
\* maps to Some, and find_keep_pids_from_pmts builds tx_map from pmt_pids.
KpsFindPidsFromPat ==
    /\ kpsPhase = "pat"
    /\ LET r == FindPidsFromPat(kpsPatBytes)
       IN  IF r = <<>>
           THEN /\ kpsPhase' = "failed"
                /\ UNCHANGED <<kpsNetwork, kpsPmtPids, kpsTxMap>>
           ELSE /\ kpsPhase' = "pmts"
                /\ kpsNetwork' = r[1].network_pid
                /\ kpsPmtPids' = r[1].pmt_pids
                /\ kpsTxMap' = r[1].pmt_pids
    /\ UNCHANGED <<kpsPat, kpsSrc, kpsIndex, kpsPatBytes, kpsStream, kpsPos, kpsTask,
                   kpsChan, kpsOut, kpsKeep>>
    /\ Frame("kps")

\* ForwardUntilResolved sends the next section to the demuxer: the first of
\* a PID of tx_map spawns the task of that PID, one of a PID with a task
\* goes to its channel of capacity 1 (it waits while that is full) or is
\* dropped once the task has returned, any other is dropped.
KpsForward ==
    /\ kpsPhase = "pmts"
    /\ kpsPos < Len(kpsStream)
    /\ LET item == kpsStream[kpsPos + 1]
       IN  IF item.pid \in kpsTxMap
           THEN /\ kpsTxMap' = kpsTxMap \ {item.pid}
                /\ kpsTask' = MapInsert(kpsTask, item.pid,
                                  [state |-> "reading", pids |-> {}, queue |-> <<item.bytes>>])
           ELSE IF item.pid \in DOMAIN kpsTask /\ kpsTask[item.pid].state = "reading"
           THEN /\ kpsTask[item.pid].queue = <<>>
                /\ kpsTask' = [kpsTask EXCEPT ![item.pid].queue = <<item.bytes>>]
                /\ UNCHANGED kpsTxMap
           ELSE UNCHANGED <<kpsTxMap, kpsTask>>
    /\ kpsPos' = kpsPos + 1
    /\ UNCHANGED <<kpsPat, kpsSrc, kpsIndex, kpsPatBytes, kpsStream, kpsPhase, kpsNetwork,
                   kpsPmtPids, kpsChan, kpsOut, kpsKeep>>
    /\ Frame("kps")

\* The task of a PID takes a section: find_keep_pids_from_pmt resolves with
\* the first its closure maps to Some.
KpsTaskPoll ==
    /\ kpsPhase = "pmts"
    /\ \E pid \in DOMAIN kpsTask :
          /\ kpsTask[pid].state = "reading"
          /\ kpsTask[pid].queue # <<>>
          /\ LET r == FindKeepPidsFromPmt(pid, kpsTask[pid].queue[1])
             IN  kpsTask' = [kpsTask EXCEPT ![pid] =
                     IF r = "panic" THEN [state |-> "failed", pids |-> {}, queue |-> <<>>]
                     ELSE IF r = <<>> THEN [@ EXCEPT !.queue = <<>>]
                     ELSE [state |-> "found", pids |-> r[1], queue |-> <<>>]]
    /\ UNCHANGED <<kpsPat, kpsSrc, kpsIndex, kpsPatBytes, kpsStream, kpsPos, kpsPhase,
                   kpsNetwork, kpsPmtPids, kpsTxMap, kpsChan, kpsOut, kpsKeep>>
    /\ Frame("kps")

\* The stream of a task ends once the source has ended and the sink is
\* closed: "no pids found", and its pids_tx is dropped unused.
KpsTaskEnd ==
    /\ kpsPhase = "pmts"
    /\ kpsPos = Len(kpsStream)
    /\ \E pid \in DOMAIN kpsTask :
          /\ kpsTask[pid].state = "reading"
          /\ kpsTask[pid].queue = <<>>
          /\ kpsTask' = [kpsTask EXCEPT ![pid].state = "failed"]
    /\ UNCHANGED <<kpsPat, kpsSrc, kpsIndex, kpsPatBytes, kpsStream, kpsPos, kpsPhase,
                   kpsNetwork, kpsPmtPids, kpsTxMap, kpsChan, kpsOut, kpsKeep>>
    /\ Frame("kps")

\* pids_tx.send(pids) of a task, on the channel(1) all tasks share.
KpsTaskSend ==
    /\ kpsPhase = "pmts"
    /\ kpsChan = <<>>
    /\ \E pid \in DOMAIN kpsTask :
          /\ kpsTask[pid].state = "found"
          /\ kpsChan' = <<kpsTask[pid].pids>>
          /\ kpsTask' = [kpsTask EXCEPT ![pid].state = "sent"]
    /\ UNCHANGED <<kpsPat, kpsSrc, kpsIndex, kpsPatBytes, kpsStream, kpsPos, kpsPhase,
                   kpsNetwork, kpsPmtPids, kpsTxMap, kpsOut, kpsKeep>>
    /\ Frame("kps")

\* One step of the fold of collect_pids.
KpsCollect ==
    /\ kpsPhase = "pmts"
    /\ kpsChan # <<>>
    /\ kpsOut' = kpsOut \cup kpsChan[1]
    /\ kpsChan' = <<>>
    /\ UNCHANGED <<kpsPat, kpsSrc, kpsIndex, kpsPatBytes, kpsStream, kpsPos, kpsPhase,
                   kpsNetwork, kpsPmtPids, kpsTxMap, kpsTask, kpsKeep>>
    /\ Frame("kps")

\* collect_pids resolves when every clone of tx is dropped, those tx_map
\* still holds included; find_keep_pids then inserts network_pid.
KpsResolve ==
    /\ kpsPhase = "pmts"
    /\ kpsTxMap = {}
    /\ \A pid \in DOMAIN kpsTask : kpsTask[pid].state \in {"sent", "failed"}
    /\ kpsChan = <<>>
    /\ kpsKeep' = kpsOut \cup (IF kpsNetwork # <<>> THEN {kpsNetwork[1]} ELSE {})
    /\ kpsPhase' = "done"
    /\ UNCHANGED <<kpsPat, kpsSrc, kpsIndex, kpsPatBytes, kpsStream, kpsPos, kpsNetwork,
                   kpsPmtPids, kpsTxMap, kpsTask, kpsChan, kpsOut>>
    /\ Frame("kps")

KpsNext ==
    \/ KpsFindPidsFromPat
    \/ KpsForward
    \/ KpsTaskPoll
    \/ KpsTaskEnd
    \/ KpsTaskSend
    \/ KpsCollect
    \/ KpsResolve

SpecKps == InitKps /\ [][KpsNext]_vars


\* The PMT PIDs the PAT of the input lists, and its network PID.
KpsPatPmtPids == {kpsPat[i][2] : i \in {j \in DOMAIN kpsPat : kpsPat[j][1] # 0}}
KpsPatNetworkPids == {kpsPat[i][2] : i \in {j \in DOMAIN kpsPat : kpsPat[j][1] = 0}}

\* The program map sections of the PID pid in the input: well formed ones
\* of table_id 0x02.
KpsPmtsOf(pid) ==
    {i \in DOMAIN kpsSrc :
        kpsSrc[i].pid = pid /\ kpsSrc[i].table = 2 /\ kpsSrc[i].eil = 0}

KpsHasH264(rec) == \E i \in DOMAIN rec.streams : rec.streams[i][1] = 27

\* What the PMT of the PID pid, the first of its sections, gives to the
\* keep-set.
KpsContribution(pid) ==
    IF KpsPmtsOf(pid) = {} THEN {}
    ELSE LET rec == kpsSrc[CHOOSE i \in KpsPmtsOf(pid) : \A j \in KpsPmtsOf(pid) : i <= j]
         IN  IF KpsHasH264(rec) THEN {}
             ELSE {pid, rec.pcr} \cup {rec.streams[i][2] : i \in DOMAIN rec.streams}

(***************************************************************************)
(* C13: the keep-set of Clean is the union, over the PMTs selected, of the *)
(* PMT PID, pcr_pid and every elementary_pid of the PMT, a PMT with any    *)
(* stream of type 0x1B giving no PID at all, together with the network PID *)
(* of the PAT when the PAT has an entry of program_number 0.               *)
(***************************************************************************)
KpsKeepSetIsUnion ==
    kpsPhase = "done" =>
        kpsKeep = UNION {KpsContribution(pid) : pid \in KpsPatPmtPids} \cup KpsPatNetworkPids

\* A PAT with a network entry and two programs, one with an H.264 stream
\* after another stream, the other without.
KpsKeepSetIsUnionWitness ==
    /\ kpsPhase = "done"
    /\ KpsPatNetworkPids # {}
    /\ \E p \in KpsPatPmtPids, q \in KpsPatPmtPids :
          /\ KpsContribution(p) # {}
          /\ KpsPmtsOf(q) # {}
          /\ KpsContribution(q) = {}
          /\ \E i \in KpsPmtsOf(q) : kpsSrc[i].streams[1][1] # 27 /\ KpsHasH264(kpsSrc[i])
                                     /\ \A j \in KpsPmtsOf(q) : i <= j


\* The non-network entries of the PAT of the input, in its order.
KpsPrograms == SelectSeq(kpsPat, LAMBDA e : e[1] # 0)

\* The entries the rewritten PAT lists: dump_pat's loop over the map of the
\* PAT with the keep-set find_keep_pids resolved with.
KpsOutputPatMap == DumpPatMap(PatMapBytes(kpsPat), kpsKeep)

(***************************************************************************)
(* C14: when a service index i is given to Clean, only the i-th            *)
(* non-network entry of the PAT, by position, is selected: only the PMT of *)
(* that program gives PIDs to the keep-set, and the output PAT lists the   *)
(* network entry and that program only.  For the PAT {(0, 0x0010),         *)
(* (0x0101, 0x01F0), (0x0102, 0x02F0)} and index 0 the output PAT lists    *)
(* {(0, 0x0010), (0x0101, 0x01F0)}.                                        *)
(***************************************************************************)
KpsServiceIndexSelectsOne ==
    (kpsIndex # <<>> /\ kpsIndex[1] < Len(KpsPrograms)) =>
        LET selected == KpsPrograms[kpsIndex[1] + 1]
        IN  /\ kpsPhase \in {"pmts", "done"} => kpsPmtPids = {selected[2]}
            /\ kpsPhase = "done" =>
                  /\ kpsKeep = KpsContribution(selected[2]) \cup KpsPatNetworkPids
                  /\ KpsOutputPatMap =
                        PatMapBytes(SelectSeq(kpsPat, LAMBDA e : e[1] = 0 \/ e = selected))


(***************************************************************************)
(* arib/string.rs: AribDecoder                                             *)
(***************************************************************************)
\* A Charset; n is the number of a DRCS set and 0 otherwise.
Charset(cs) == [cs |-> cs, n |-> 0]
CharsetDRCS(n) == [cs |-> "DRCS", n |-> n]

\* jisx0213::code_point_to_chars and arib_symbols::code_point_to_char, on
\* the code points whose characters the tests of the two crates state.
Jisx0213 ==
    (94754 :> <<39686>>) @@ (74875 :> <<12371, 12442>>) @@ (139572 :> <<20153>>)
        @@ (160803 :> <<31959>>)
AribSymbols ==
    (31265 :> <<9932>>) @@ (31558 :> <<9975>>) @@ (32092 :> <<8528>>) @@ (32381 :> <<12891>>)

\* StateModification::new()
StateModificationNew == [single |-> <<>>, gl |-> <<>>, gr |-> <<>>,
                         g |-> <<<<>>, <<>>, <<>>, <<>>>>]

\* enum Error: the variant, and the code point or control byte and the name
\* it carries; NoError where there is none.
AribError(name, code, what) == [name |-> name, code |-> code, what |-> what]
NoError == AribError("", 0, "")
MalformedShortBytes == AribError("MalformedShortBytes", 0, "")
UnknownCodepoint(cp, what) == AribError("UnknownCodepoint", cp, what)

\* What one step of the decoder returns: ret is "ok", "err" or "panic"
\* (unreachable!()), used the bytes it took, chars what it pushed, error
\* the error of "err".
AribStep(ret, used, chars, mod) ==
    [ret |-> ret, used |-> used, chars |-> chars, mod |-> mod,
     error |-> [name |-> "", code |-> 0, what |-> ""]]
AribErr(used, name, code, what) ==
    [ret |-> "err", used |-> used, chars |-> <<>>, mod |-> StateModificationNew,
     error |-> [name |-> name, code |-> code, what |-> what]]
AribPanic(used) == AribStep("panic", used, <<>>, StateModificationNew)
AribOk(used, chars) == AribStep("ok", used, chars, StateModificationNew)

\* The byte the iterator of Charset::decode yields at 0-based i: x & 0x7f.
Masked(bytes, i) == At(bytes, i) % 128

\* A two-byte code point.
CodePoint2(bytes) == Masked(bytes, 0) * 256 + Masked(bytes, 1)

\* The tables of the Hiragana and Katakana arms.
KanaChar_OffByOne(c, base, last) ==
    IF c >= 33 /\ c <= last THEN <<base + c - 32>> ELSE <<12539>>
KanaChar(c, base, last) ==
    IF c >= 33 /\ c <= last THEN <<base + c - 33>>
    ELSE IF c = 119 THEN <<IF base = 12353 THEN 12445 ELSE 12541>>
    ELSE IF c = 120 THEN <<IF base = 12353 THEN 12446 ELSE 12542>>
    ELSE IF c = 121 THEN <<12540>>
    ELSE IF c = 122 THEN <<12290>>
    ELSE IF c = 123 THEN <<12300>>
    ELSE IF c = 124 THEN <<12301>>
    ELSE IF c = 125 THEN <<12289>>
    ELSE IF c = 126 THEN <<12539>>
    ELSE <<>>

\* The two macros of the Macro arm as a StateModification.
MacroModification(g1) ==
    [single |-> <<>>, gl |-> <<0>>, gr |-> <<2>>,
     g |-> <<<<Charset("Kanji")>>, <<Charset(g1)>>, <<Charset("Hiragana")>>,
             <<Charset("Macro")>>>>]

\* Charset::decode of the charset cs on the bytes that are left.
CharsetDecode(cs, bytes, drcsMap) ==
    LET two == cs.cs \in {"Kanji", "JISGokanKanji1", "JISGokanKanji2", "Symbol"}
                  \/ (cs.cs = "DRCS" /\ cs.n = 0)
        need == IF cs.cs \in {"MosaicA", "MosaicB", "MosaicC", "MosaicD"} THEN 0
                ELSE IF two THEN 2 ELSE 1
    IN  IF need = 0 THEN AribErr(0, "UnimplementedCharset", 0, "mosaic")
        ELSE IF Len(bytes) < need THEN AribErr(Len(bytes), "MalformedShortBytes", 0, "")
        ELSE
    LET c == Masked(bytes, 0)
        jis(cp, what) == IF cp \in DOMAIN Jisx0213 THEN AribOk(2, Jisx0213[cp])
                         ELSE AribErr(2, "UnknownCodepoint", cp, what)
        sym(cp, what) == IF cp \in DOMAIN AribSymbols THEN AribOk(2, AribSymbols[cp])
                         ELSE AribErr(2, "UnknownCodepoint", cp, what)
        kana(base, last) == IF KanaChar(c, base, last) = <<>> THEN AribPanic(1)
                            ELSE AribOk(1, KanaChar(c, base, last))
        \* the name the error carries, "drcs(n)", is kept as "drcs"
        drcs(cc, used) == IF cc \in DOMAIN drcsMap THEN AribOk(used, drcsMap[cc])
                          ELSE AribErr(used, "UnknownCodepoint", cc, "drcs")
    IN  CASE cs.cs = "Kanji" ->
               IF CodePoint2(bytes) < 29952 THEN jis(65536 + CodePoint2(bytes), "kanji")
               ELSE sym(CodePoint2(bytes), "kanji")
          [] cs.cs = "JISGokanKanji1" -> jis(65536 + CodePoint2(bytes), "jis gokan 1")
          [] cs.cs = "JISGokanKanji2" -> jis(131072 + CodePoint2(bytes), "jis gokan 2")
          [] cs.cs \in {"Alnum", "ProportionalAlnum"} -> AribOk(1, <<c>>)
          [] cs.cs \in {"Hiragana", "ProportionalHiragana"} -> kana(12353, 115)
          [] cs.cs \in {"Katakana", "ProportionalKatakana"} -> kana(12449, 118)
          [] cs.cs = "JISX0201" -> AribOk(1, <<65377 + c - 33>>)
          [] cs.cs = "Symbol" -> sym(CodePoint2(bytes), "symbol")
          [] cs.cs = "DRCS" ->
               IF cs.n = 0 THEN drcs(CodePoint2(bytes), 2)
               ELSE drcs((64 + cs.n) * 256 + c, 1)
          [] cs.cs = "Macro" ->
               IF c = 96 THEN AribStep("ok", 1, <<>>, MacroModification("Alnum"))
               ELSE IF c = 97 THEN AribStep("ok", 1, <<>>, MacroModification("Katakana"))
               ELSE AribErr(1, "UnknownCodepoint", c, "macro")

\* is_control
IsControl(b) == (b % 128) <= 32 \/ (b % 128) = 127

\* g_set_from_termination and drcs_from_termination: <<>> for unreachable!().
GSetFromTermination(f) ==
    CASE f = 66 -> <<Charset("Kanji")>>
      [] f = 74 -> <<Charset("Alnum")>>
      [] f = 48 -> <<Charset("Hiragana")>>
      [] f = 49 -> <<Charset("Katakana")>>
      [] f = 50 -> <<Charset("MosaicA")>>
      [] f = 51 -> <<Charset("MosaicB")>>
      [] f = 52 -> <<Charset("MosaicC")>>
      [] f = 53 -> <<Charset("MosaicD")>>
      [] f = 54 -> <<Charset("ProportionalAlnum")>>
      [] f = 55 -> <<Charset("ProportionalHiragana")>>
      [] f = 56 -> <<Charset("ProportionalKatakana")>>
      [] f = 73 -> <<Charset("JISX0201")>>
      [] f = 57 -> <<Charset("JISGokanKanji1")>>
      [] f = 58 -> <<Charset("JISGokanKanji2")>>
      [] f = 59 -> <<Charset("Symbol")>>
      [] OTHER -> <<>>

DrcsFromTermination(f) ==
    IF f >= 64 /\ f <= 79 THEN <<CharsetDRCS(f - 64)>>
    ELSE IF f = 112 THEN <<Charset("Macro")>>
    ELSE <<>>

\* AribDecoder::with_caption_initialization()
WithCaptionInitialization ==
    [single |-> <<>>, gl |-> 0, gr |-> 2,
     g |-> <<Charset("Kanji"), Charset("Alnum"), Charset("Hiragana"), Charset("Macro")>>]

\* AribDecoder::apply
Apply(self, mod) ==
    [single |-> IF mod.single # <<>> THEN mod.single ELSE self.single,
     gl |-> IF mod.gl # <<>> THEN mod.gl[1] ELSE self.gl,
     gr |-> IF mod.gr # <<>> THEN mod.gr[1] ELSE self.gr,
     g |-> [i \in 1..4 |-> IF mod.g[i] # <<>> THEN mod.g[i][1] ELSE self.g[i]]]


\* What AribDecoder::control returns: ret, the bytes it took, the chars it
\* pushed and the decoder afterwards.
Ctl(ret, used, chars, self) ==
    [ret |-> ret, used |-> used, chars |-> chars, self |-> self,
     error |-> [name |-> IF ret = "err" THEN "MalformedShortBytes" ELSE "",
                code |-> 0, what |-> ""]]

\* self.g[pos] = code, code being <<>> when its function is unreachable!().
CtlDesignate(self, pos, code, used) ==
    IF code = <<>> THEN Ctl("panic", used, <<>>, self)
    ELSE Ctl("ok", used, <<>>, [self EXCEPT !.g[pos + 1] = code[1]])

\* The loops of CSI and TIME from the 0-based byte `from`: they take bytes
\* up to the first that is >= 0x40.
CtlUntilFinal_KeepsFinal(self, bytes, from) ==
    LET finals == {i \in from..(Len(bytes) - 1) : At(bytes, i) >= 64}
    IN  IF finals = {} THEN Ctl("err", Len(bytes), <<>>, self)
        ELSE Ctl("ok", CHOOSE i \in finals : \A j \in finals : i <= j, <<>>, self)
CtlUntilFinal(self, bytes, from) ==
    LET finals == {i \in from..(Len(bytes) - 1) : At(bytes, i) >= 64}
    IN  IF finals = {} THEN Ctl("err", Len(bytes), <<>>, self)
        ELSE Ctl("ok", 1 + (CHOOSE i \in finals : \A j \in finals : i <= j), <<>>, self)

\* The ESC arm of control, bytes starting at ESC.
ControlEsc(self, bytes) ==
    LET n == Len(bytes)
        short == Ctl("err", n, <<>>, self)
    IN  IF n < 2 THEN short
        ELSE
    LET s1 == At(bytes, 1)
    IN  CASE s1 = 110 -> Ctl("ok", 2, <<>>, [self EXCEPT !.gl = 2])
          [] s1 = 111 -> Ctl("ok", 2, <<>>, [self EXCEPT !.gl = 3])
          [] s1 = 126 -> Ctl("ok", 2, <<>>, [self EXCEPT !.gr = 1])
          [] s1 = 125 -> Ctl("ok", 2, <<>>, [self EXCEPT !.gr = 2])
          [] s1 = 124 -> Ctl("ok", 2, <<>>, [self EXCEPT !.gr = 3])
          [] s1 >= 40 /\ s1 <= 43 ->
               IF n < 3 THEN short
               ELSE IF At(bytes, 2) = 32
                 THEN IF n < 4 THEN short
                      ELSE CtlDesignate(self, s1 - 40, DrcsFromTermination(At(bytes, 3)), 4)
               ELSE CtlDesignate(self, s1 - 40, GSetFromTermination(At(bytes, 2)), 3)
          [] s1 = 36 ->
               IF n < 3 THEN short
               ELSE
               LET s2 == At(bytes, 2)
               IN  IF s2 = 40
                     THEN IF n < 4 THEN short
                          ELSE IF At(bytes, 3) # 32 THEN Ctl("panic", 4, <<>>, self)
                          ELSE IF n < 5 THEN short
                          ELSE CtlDesignate(self, 0, DrcsFromTermination(At(bytes, 4)), 5)
                   ELSE IF s2 >= 41 /\ s2 <= 43
                     THEN IF n < 4 THEN short
                          ELSE IF At(bytes, 3) = 32
                            THEN IF n < 5 THEN short
                                 ELSE CtlDesignate(self, s2 - 40,
                                                   DrcsFromTermination(At(bytes, 4)), 5)
                          ELSE CtlDesignate(self, s2 - 40, GSetFromTermination(At(bytes, 3)), 4)
                   ELSE CtlDesignate(self, 0, GSetFromTermination(s2), 3)
          [] OTHER -> Ctl("panic", 2, <<>>, self)

\* MACRO, RPC, SPL and STL: the controls whose arms return
\* UnimplementedControl.
UnimplementedControls_None == {}
UnimplementedControls == {149, 152, 153, 154}

\* AribDecoder::control on the bytes that are left, the first a control.
Control(self, bytes) ==
    LET n == Len(bytes)
        s0 == At(bytes, 0)
        take(k, chars) == IF n < k THEN Ctl("err", n, <<>>, self) ELSE Ctl("ok", k, chars, self)
        param1or2 == IF n < 2 THEN Ctl("err", n, <<>>, self)
                     ELSE IF At(bytes, 1) = 32 THEN take(3, <<>>) ELSE take(2, <<>>)
    IN  CASE s0 = 15 -> Ctl("ok", 1, <<>>, [self EXCEPT !.gl = 0])
          [] s0 = 14 -> Ctl("ok", 1, <<>>, [self EXCEPT !.gl = 1])
          [] s0 = 27 -> ControlEsc(self, bytes)
          [] s0 = 25 -> Ctl("ok", 1, <<>>, [self EXCEPT !.single = <<2>>])
          [] s0 = 29 -> Ctl("ok", 1, <<>>, [self EXCEPT !.single = <<3>>])
          [] s0 \in {7, 8, 9, 10, 13, 32} -> take(1, <<s0>>)
          [] s0 = 22 -> IF n < 2 THEN Ctl("err", n, <<>>, self)
                        ELSE take(2, [i \in 1..At(bytes, 1) |-> 9])
          [] s0 = 28 -> take(3, <<10>>)
          [] s0 \in {144, 146} -> param1or2
          [] s0 \in {147, 139, 145, 148, 151} -> take(2, <<>>)
          [] s0 = 157 ->
               IF n < 2 THEN Ctl("err", n, <<>>, self)
               ELSE IF At(bytes, 1) \in {32, 40} THEN take(3, <<>>)
               ELSE IF At(bytes, 1) = 41 THEN CtlUntilFinal(self, bytes, 2)
               ELSE Ctl("panic", 2, <<>>, self)
          [] s0 \in UnimplementedControls ->
               [ret |-> "err", used |-> 1, chars |-> <<>>, self |-> self,
                error |-> [name |-> "UnimplementedControl", code |-> s0, what |-> ""]]
          [] s0 = 155 -> CtlUntilFinal(self, bytes, 1)
          [] OTHER -> take(1, <<>>)

\* The charset of a graphic byte b, and the decoder once it is chosen: a
\* single shift serves one byte below 0x80.
DecodeCharset_AnyByte(self, b) ==
    IF self.single # <<>>
    THEN [cs |-> self.g[self.single[1] + 1], self |-> [self EXCEPT !.single = <<>>]]
    ELSE IF b < 128 THEN [cs |-> self.g[self.gl + 1], self |-> self]
    ELSE [cs |-> self.g[self.gr + 1], self |-> self]
DecodeCharset(self, b) ==
    IF b < 128
    THEN IF self.single # <<>>
         THEN [cs |-> self.g[self.single[1] + 1], self |-> [self EXCEPT !.single = <<>>]]
         ELSE [cs |-> self.g[self.gl + 1], self |-> self]
    ELSE [cs |-> self.g[self.gr + 1], self |-> self]

\* AribDecoder::decode from the decoder `self`: [ret, string], and the
\* decoder as it is when decode returns and drops it.
RECURSIVE DecodeFrom(_, _, _, _)
DecodeFrom(self, bytes, string, drcsMap) ==
    IF bytes = <<>>
    THEN [ret |-> "ok", string |-> string, self |-> self,
          error |-> [name |-> "", code |-> 0, what |-> ""]]
    ELSE IF IsControl(bytes[1])
    THEN LET c == Control(self, bytes)
         IN  IF c.ret # "ok"
             THEN [ret |-> c.ret, string |-> <<>>, self |-> c.self, error |-> c.error]
             ELSE DecodeFrom(c.self, SliceFrom(bytes, c.used), string \o c.chars, drcsMap)
    ELSE LET sel == DecodeCharset(self, bytes[1])
             d == CharsetDecode(sel.cs, bytes, drcsMap)
         IN  IF d.ret # "ok"
             THEN [ret |-> d.ret, string |-> <<>>, self |-> sel.self, error |-> d.error]
             ELSE DecodeFrom(Apply(sel.self, d.mod), SliceFrom(bytes, d.used),
                             string \o d.chars, drcsMap)

\* decoder.decode(bytes) of a decoder given drcsMap by set_drcs.
Decode(self, bytes, drcsMap) == DecodeFrom(self, bytes, <<>>, drcsMap)


(***************************************************************************)
(* cmd/caption.rs: DRCSProcessor, dump_caption, process_captions           *)
(***************************************************************************)
\* pes::PTS_HZ, the 90 kHz of the presentation time stamps.
PTS_HZ == 90000

\* drcs_map, what load_map read: fingerprint -> replacement string. The
\* fingerprints 2 and 3 are not in it.
CapDrcsMap == (1 :> <<9786>>)

\* The loop of DRCSProcessor::process over the fonts of one code.
RECURSIVE ProcessFonts(_, _, _, _, _)
ProcessFonts(fonts, codeStr, found, unknown, policy) ==
    IF fonts = <<>>
    THEN [ret |-> "ok", code_str |-> codeStr, found |-> found, unknown |-> unknown]
    ELSE IF Head(fonts) \in DOMAIN CapDrcsMap
    THEN ProcessFonts(Tail(fonts), codeStr \o CapDrcsMap[Head(fonts)], TRUE, unknown, policy)
    ELSE IF policy = "FailFast"
    THEN [ret |-> "miss", code_str |-> codeStr, found |-> found,
          unknown |-> unknown \cup {Head(fonts)}]
    ELSE ProcessFonts(Tail(fonts), codeStr, found, unknown \cup {Head(fonts)}, policy)

\* The loop of DRCSProcessor::process over the codes: [ret, proc].
RECURSIVE ProcessCodes(_, _, _)
ProcessCodes(codes, proc, policy) ==
    IF codes = <<>> THEN [ret |-> "ok", proc |-> proc]
    ELSE
    LET f == ProcessFonts(Head(codes).fonts, <<>>, FALSE, proc.unknown, policy)
    IN  IF f.ret # "ok" THEN [ret |-> f.ret, proc |-> [proc EXCEPT !.unknown = f.unknown]]
        ELSE ProcessCodes(Tail(codes),
                 [unknown |-> f.unknown,
                  code_map |-> MapInsert(proc.code_map, Head(codes).character_code,
                                         IF f.found THEN f.code_str ELSE <<65533>>)],
                 policy)

\* DRCSProcessor::process on a DRCS-1 data unit, du.ok telling whether
\* DrcsDataStructure::parse takes it.
Process(proc, policy, du) ==
    IF ~du.ok THEN [ret |-> "drcs_parse", proc |-> proc]
    ELSE ProcessCodes(du.codes, proc, policy)

\* DRCSProcessor::report_error
ReportError_Always(proc, policy) ==
    IF proc.unknown # {} THEN "failed" ELSE "ok"
ReportError(proc, policy) ==
    IF policy = "ErrorExit" /\ proc.unknown # {} THEN "failed" ELSE "ok"

\* time_sec and time_ms of a Caption.
TimeSec(offset) == offset \div PTS_HZ
TimeMs_NoRemainder(offset) == (offset * 1000) \div PTS_HZ
TimeMs(offset) == ((offset % PTS_HZ) * 1000) \div PTS_HZ

\* The decoder dump_caption makes for a Text data unit, `last` being the
\* one of the data unit before, dropped since.
NewDecoder_Keep(last) == IF last = <<>> THEN WithCaptionInitialization ELSE last[1]
NewDecoder(last) == WithCaptionInitialization

\* The loop of dump_caption from the data unit k: [ret, proc, out, decoder],
\* out being the captions printed.
RECURSIVE DumpCaptionFrom(_, _, _, _, _, _, _)
DumpCaptionFrom(dataUnits, k, offset, proc, policy, last, out) ==
    IF k > Len(dataUnits) THEN [ret |-> "ok", proc |-> proc, out |-> out, decoder |-> last]
    ELSE
    LET du == dataUnits[k]
    IN  IF du.param = "Text"
        THEN LET r == Decode(NewDecoder(last), du.data, proc.code_map)
             IN  IF r.ret # "ok"
                 THEN [ret |-> IF r.ret = "err" THEN "decode" ELSE "panic",
                       proc |-> proc, out |-> out, decoder |-> <<r.self>>]
                 ELSE DumpCaptionFrom(dataUnits, k + 1, offset, proc, policy, <<r.self>>,
                          IF r.string # <<>>
                          THEN Append(out, [time_sec |-> TimeSec(offset),
                                            time_ms |-> TimeMs(offset),
                                            caption |-> r.string, unit |-> k])
                          ELSE out)
        ELSE IF du.param = "DRCS1"
        THEN LET r == Process(proc, policy, du)
             IN  IF r.ret # "ok"
                 THEN [ret |-> r.ret, proc |-> r.proc, out |-> out, decoder |-> last]
                 ELSE DumpCaptionFrom(dataUnits, k + 1, offset, r.proc, policy, last, out)
        ELSE DumpCaptionFrom(dataUnits, k + 1, offset, proc, policy, last, out)

\* dump_caption: clear_code_map, then the loop.
DumpCaption(dataUnits, offset, proc, policy, last) ==
    DumpCaptionFrom(dataUnits, 1, offset, [proc EXCEPT !.code_map = <<>>], policy, last, <<>>)

\* The closure of the fold of process_captions on one PES packet: what it
\* met ("pes_parse", "no_pts", "early", "caption" when it returns before
\* dump_caption, else what dump_caption returned) and dump_caption's result.
FoldStep_ParseFatal(pes, basePts, proc, policy, last) ==
    LET skip(met) == [ret |-> met, proc |-> proc, out |-> <<>>, decoder |-> last]
    IN  IF ~pes.parse THEN skip("decode")
        ELSE IF pes.pts = <<>> THEN skip("no_pts")
        ELSE IF pes.pts[1] < basePts THEN skip("early")
        ELSE IF ~pes.caption THEN skip("caption")
        ELSE DumpCaption(pes.units, pes.pts[1] - basePts, proc, policy, last)
FoldStep(pes, basePts, proc, policy, last) ==
    LET skip(met) == [ret |-> met, proc |-> proc, out |-> <<>>, decoder |-> last]
    IN  IF ~pes.parse THEN skip("pes_parse")
        ELSE IF pes.pts = <<>> THEN skip("no_pts")
        ELSE IF pes.pts[1] < basePts THEN skip("early")
        ELSE IF ~pes.caption THEN skip("caption")
        ELSE DumpCaption(pes.units, pes.pts[1] - basePts, proc, policy, last)


\* Bounds and inputs of the caption specification.
MaxCapPes == 3
CapPolicyChoice == {"Ignore", "FailFast", "ErrorExit"}
CapBaseChoice == {90000}

\* Data units. A Text unit carries the string ARIB STD-B24 gives its bytes
\* when they are read from the caption initial state, and whether they can
\* be read at all; a DRCS-1 unit its codes, each font by its fingerprint,
\* and whether its structure is well formed.
TextUnit(data, text, ok) ==
    [param |-> "Text", data |-> data, text |-> text, ok |-> ok, codes |-> <<>>]
DrcsUnit(ok, codes) ==
    [param |-> "DRCS1", data |-> <<>>, text |-> <<>>, ok |-> ok, codes |-> codes]
OtherUnit == [param |-> "Other", data |-> <<>>, text |-> <<>>, ok |-> TRUE, codes |-> <<>>]

\* LS1, "A"
TextLs1 == TextUnit(<<14, 65>>, <<65>>, TRUE)
\* 1-82-02 in G0, the Kanji set
TextKanji == TextUnit(<<114, 34>>, <<39686>>, TRUE)
\* ESC LS1R, "A" in GR
TextLs1r == TextUnit(<<27, 126, 193>>, <<65>>, TRUE)
\* HIRAGANA LETTER I in GR
TextHiragana == TextUnit(<<164>>, <<12356>>, TRUE)
\* ESC 0x29 0x31 designates Katakana to G1, LS1, two letters
TextKatakana == TextUnit(<<27, 41, 49, 14, 33, 34>>, <<12449, 12450>>, TRUE)
\* SS2 for one letter of G2, then 1-4-91 of G0
TextSs2 == TextUnit(<<25, 36, 36, 123>>, <<12356, 12371, 12442>>, TRUE)
\* SS3 and the macro 0x61, LS1, a letter of the Katakana the macro designates
TextMacro == TextUnit(<<29, 97, 14, 33>>, <<12449>>, TRUE)
\* CS only: an empty string
TextEmpty == TextUnit(<<12>>, <<>>, TRUE)
\* MACRO, a control the decoder does not implement
TextErr == TextUnit(<<149>>, <<>>, FALSE)
\* ESC 0x29 0x20 0x41 designates DRCS-1 to G1, LS1, the code 0x4121
TextDrcs == TextUnit(<<27, 41, 32, 65, 14, 33>>, <<9786>>, TRUE)

DrcsHit == DrcsUnit(TRUE, <<[character_code |-> 16673, fonts |-> <<1>>]>>)
DrcsMiss == DrcsUnit(TRUE, <<[character_code |-> 16673, fonts |-> <<2>>]>>)
DrcsMixed == DrcsUnit(TRUE, <<[character_code |-> 16673, fonts |-> <<3, 1>>]>>)
DrcsBad == DrcsUnit(FALSE, <<>>)

\* A PES packet as the fold meets it: whether PESPacket::parse and
\* get_caption take it, its PTS if it has one, its data units.
CapPes(parse, pts, caption, units) ==
    [parse |-> parse, pts |-> pts, caption |-> caption, units |-> units]

CapPesChoice ==
    { CapPes(TRUE, <<179999>>, TRUE, <<TextLs1>>),
      CapPes(TRUE, <<180000>>, TRUE, <<TextKanji, TextKatakana>>),
      CapPes(TRUE, <<90000>>, TRUE, <<TextLs1r, TextHiragana>>),
      CapPes(TRUE, <<45000>>, TRUE, <<DrcsMiss>>),
      CapPes(TRUE, <<270001>>, TRUE, <<TextSs2, OtherUnit, TextEmpty, TextMacro>>),
      CapPes(FALSE, <<>>, TRUE, <<TextLs1>>),
      CapPes(TRUE, <<>>, TRUE, <<TextLs1>>),
      CapPes(TRUE, <<200000>>, FALSE, <<TextLs1>>),
      CapPes(TRUE, <<200000>>, TRUE, <<DrcsHit, TextDrcs>>),
      CapPes(TRUE, <<200001>>, TRUE, <<DrcsMixed, TextDrcs, DrcsMiss>>),
      CapPes(TRUE, <<210000>>, TRUE, <<TextErr>>),
      CapPes(TRUE, <<230000>>, TRUE, <<DrcsBad>>) }

CapInit ==
    /\ capPolicy \in CapPolicyChoice
    /\ capBase \in CapBaseChoice
    /\ capIn \in SeqUpTo(CapPesChoice, MaxCapPes)
    /\ capPos = 0
    /\ capProc = [unknown |-> {}, code_map |-> <<>>]
    /\ capDecoder = <<>>
    /\ capOut = <<>>
    /\ capResult = "running"
    /\ capError = ""
    /\ capLast = <<>>

InitCap == CapInit /\ Idle("cap")

\* The fold takes the next PES packet.
CapFold ==
    /\ capResult = "running"
    /\ capPos < Len(capIn)
    /\ LET r == FoldStep(capIn[capPos + 1], capBase, capProc, capPolicy, capDecoder)
           fatal == r.ret \in {"decode", "drcs_parse", "miss", "panic"}
       IN  /\ capProc' = r.proc
           /\ capDecoder' = r.decoder
           /\ capOut' = capOut \o [i \in DOMAIN r.out |->
                                      [time_sec |-> r.out[i].time_sec,
                                       time_ms |-> r.out[i].time_ms,
                                       caption |-> r.out[i].caption,
                                       at |-> capPos + 1, unit |-> r.out[i].unit]]
           /\ capResult' = IF r.ret = "panic" THEN "panicked"
                           ELSE IF fatal THEN "failed" ELSE "running"
           /\ capError' = IF fatal THEN r.ret ELSE ""
           /\ capLast' = <<[at |-> capPos + 1, met |-> r.ret, before |-> capProc,
                            after |-> r.proc, printed |-> Len(r.out)]>>
    /\ capPos' = capPos + 1
    /\ UNCHANGED <<capPolicy, capBase, capIn>>
    /\ Frame("cap")

\* The stream has ended: report_error.
CapFinish ==
    /\ capResult = "running"
    /\ capPos = Len(capIn)
    /\ capResult' = ReportError(capProc, capPolicy)
    /\ capError' = IF ReportError(capProc, capPolicy) = "failed" THEN "unknown_at_end" ELSE ""
    /\ UNCHANGED <<capPolicy, capBase, capIn, capPos, capProc, capDecoder, capOut, capLast>>
    /\ Frame("cap")

CapNext ==
    \/ CapFold
    \/ CapFinish

SpecCap == InitCap /\ [][CapNext]_vars


(***************************************************************************)
(* What the caption operation is to do with its input, read off the input  *)
(***************************************************************************)
\* The PES packet i is handed to dump_caption.
CapTaken(i) ==
    /\ capIn[i].parse
    /\ capIn[i].pts # <<>>
    /\ capIn[i].pts[1] >= capBase
    /\ capIn[i].caption

\* The data units of the packets handed to dump_caption, as <<i, k>>.
CapUnits ==
    UNION {{<<i, k>> : k \in DOMAIN capIn[i].units} : i \in {j \in DOMAIN capIn : CapTaken(j)}}
CapUnit(u) == capIn[u[1]].units[u[2]]
CapEarlier(u, v) == u[1] < v[1] \/ (u[1] = v[1] /\ u[2] < v[2])

\* A DRCS-1 data unit with a font whose fingerprint the DRCS map lacks.
CapIsMiss(u) ==
    /\ CapUnit(u).param = "DRCS1"
    /\ CapUnit(u).ok
    /\ \E c \in DOMAIN CapUnit(u).codes :
          \E f \in DOMAIN CapUnit(u).codes[c].fonts :
             CapUnit(u).codes[c].fonts[f] \notin DOMAIN CapDrcsMap

\* A data unit that cannot be read: a Text unit the decoder fails on, a
\* DRCS-1 unit whose structure does not parse.
CapIsBroken(u) == CapUnit(u).param \in {"Text", "DRCS1"} /\ ~CapUnit(u).ok

\* The data units at which the operation ends with an error, and the first.
CapStops == {u \in CapUnits : CapIsBroken(u) \/ (capPolicy = "FailFast" /\ CapIsMiss(u))}
CapReached(u) == u[1] <= capPos /\ \A v \in CapStops : ~CapEarlier(v, u)
CapStopped == {u \in CapStops : CapReached(u)}

\* The data units that give a caption.
CapIsCaption(u) ==
    CapUnit(u).param = "Text" /\ CapUnit(u).ok /\ CapUnit(u).text # <<>>
CapPrinted == {<<capOut[n].at, capOut[n].unit>> : n \in DOMAIN capOut}


\* The data units that are to give a caption, and those with a miss, among
\* the packets handed to dump_caption.
CapInputCaptions == {u \in CapUnits : CapIsCaption(u)}
CapInputMisses == {u \in CapUnits : CapIsMiss(u)}

\* C15 as the specification states it: the policies decide alone. Under
\* Ignore a miss never fails the operation; under FailFast it fails at the
\* first DRCS-1 data unit with an unknown font and emits no caption after
\* it; under ErrorExit every caption is emitted and the operation fails at
\* the end of the stream if and only if a miss was recorded.
CapPolicyAlone ==
    /\ capPolicy = "Ignore" => capError \notin {"miss", "unknown_at_end"}
    /\ capPolicy = "FailFast" =>
          \A u \in CapInputMisses :
             (u[1] <= capPos /\ \A v \in CapInputMisses : ~CapEarlier(v, u))
             => /\ capResult = "failed"
                /\ capPos = u[1]
                /\ \A p \in CapPrinted : CapEarlier(p, u)
    /\ (capPolicy = "ErrorExit" /\ capResult \in {"ok", "failed"}) =>
          /\ capPos = Len(capIn)
          /\ CapInputCaptions \subseteq CapPrinted
          /\ capResult = "failed" <=> capProc.unknown # {}

(***************************************************************************)
(* C15: under Ignore a DRCS fingerprint miss never makes the caption       *)
(* operation fail; under FailFast the operation fails at the first DRCS-1  *)
(* data unit handed to the DRCS processor that has a font of unknown       *)
(* fingerprint, and no caption is emitted after it; under ErrorExit a miss *)
(* stops no caption, and an operation that reaches the end of the stream   *)
(* fails there if and only if a miss was recorded.  A data unit that       *)
(* cannot be read ends the operation under every policy.                   *)
(***************************************************************************)
CapDrcsPolicy ==
    /\ capPolicy = "Ignore" => capError \notin {"miss", "unknown_at_end"}
    /\ capError = "miss" => capPolicy = "FailFast"
    /\ capError = "unknown_at_end" => capPolicy = "ErrorExit"
    /\ capPolicy = "FailFast" =>
          \A u \in CapStopped :
             CapIsMiss(u)
             => /\ capResult = "failed"
                /\ capError = "miss"
                /\ capPos = u[1]
                /\ \A p \in CapPrinted : CapEarlier(p, u)
    /\ capPolicy \in {"Ignore", "ErrorExit"} =>
          \* a miss stops nothing: what follows it is printed
          /\ \A u \in CapUnits : (CapReached(u) /\ CapIsCaption(u)) => u \in CapPrinted
          /\ \A i \in DOMAIN capLast : capLast[i].met # "miss"
    /\ (capPolicy = "ErrorExit" /\ capPos = Len(capIn) /\ CapStopped = {}
            /\ capResult # "running") =>
          /\ capResult = "failed" <=> \E u \in CapUnits : CapIsMiss(u)
          /\ capResult = "failed" <=> capProc.unknown # {}
          /\ capResult = "failed" => capError = "unknown_at_end"

\* ErrorExit: a miss recorded, a caption printed after it, and the failure
\* at the end of the stream.
CapDrcsPolicyWitness ==
    /\ capPolicy = "ErrorExit"
    /\ capResult = "failed"
    /\ capError = "unknown_at_end"
    /\ \E u \in CapUnits : CapIsMiss(u) /\ \E p \in CapPrinted : CapEarlier(u, p)


CapTimeOfCaption ==
    /\ \A n \in DOMAIN capOut :
          LET pts == capIn[capOut[n].at].pts[1]
              offset == pts - capBase
              sec == capOut[n].time_sec
              ms == capOut[n].time_ms
          IN  /\ pts >= capBase
              \* sec whole seconds of 90000 ticks, and what is left in
              \* thousandths of a second, rounded down
              /\ sec * 90000 <= offset /\ offset < (sec + 1) * 90000
              /\ ms * 90000 <= (offset - sec * 90000) * 1000
              /\ (offset - sec * 90000) * 1000 < (ms + 1) * 90000
              /\ 0 <= ms /\ ms <= 999
    /\ \A i \in DOMAIN capLast :
          LET l == capLast[i]
              pes == capIn[l.at]
          IN  (pes.parse /\ pes.pts # <<>> /\ pes.pts[1] < capBase)
              => /\ l.met = "early"
                 /\ l.printed = 0
                 /\ l.after = l.before
                 /\ capProc = l.before
    /\ \A n \in DOMAIN capOut : capIn[capOut[n].at].pts[1] >= capBase

\* A caption 89999 ticks after base_pts printed with time_ms = 999, then a
\* PES packet below base_pts with a DRCS-1 data unit, the processor left
\* without a miss recorded.
CapTimeOfCaptionWitness ==
    /\ \E n \in DOMAIN capOut : capOut[n].time_sec = 0 /\ capOut[n].time_ms = 999
    /\ \E n \in DOMAIN capOut : capOut[n].time_sec = 2 /\ capOut[n].time_ms = 0
    /\ capLast # <<>>
    /\ capLast[1].met = "early"
    /\ capIn[capLast[1].at].units[1].param = "DRCS1"
    /\ capProc.unknown = {}

(***************************************************************************)
(* C18: every Text data unit is decoded starting from the caption initial  *)
(* state (G0 Kanji, G1 Alnum, G2 Hiragana, G3 Macro, GL = G0, GR = G2, no  *)
(* single shift), whatever an earlier data unit designated or invoked;     *)
(* within one data unit, designations, locking shifts and macro            *)
(* invocations last from the byte where they occur to the end of the unit. *)
(***************************************************************************)
CapTextFromInitialState ==
    \* what is printed for a data unit is the string its bytes have when
    \* they are read from the initial state
    /\ \A n \in DOMAIN capOut :
          LET du == capIn[capOut[n].at].units[capOut[n].unit]
          IN  du.param = "Text" /\ du.ok /\ capOut[n].caption = du.text
    \* and every data unit reached is read so
    /\ \A u \in CapUnits :
          (CapReached(u) /\ CapIsCaption(u))
          => \E n \in DOMAIN capOut :
                /\ <<capOut[n].at, capOut[n].unit>> = u
                /\ capOut[n].caption = CapUnit(u).text
    /\ \A u \in CapUnits :
          (CapUnit(u).param = "Text" /\ u[1] = capPos /\ capError = "decode"
              /\ \A v \in CapStops : ~CapEarlier(v, u))
          => ~CapUnit(u).ok

\* After a data unit that invoked G1 in GL and one that invoked G1 in GR, a
\* data unit read with the Kanji set in GL and one with Hiragana in GR; a
\* designation of Katakana to G1 serving the two letters after it.
CapTextFromInitialStateWitness ==
    /\ Len(capOut) >= 4
    /\ \E a, b, c, d \in DOMAIN capOut :
          /\ a < b /\ capOut[a].caption = <<65>> /\ capOut[b].caption = <<39686>>
          /\ capOut[b + 1].caption = <<12449, 12450>>
          /\ c < d /\ capIn[capOut[c].at].units[capOut[c].unit] = TextLs1r
          /\ capOut[d].caption = <<12356>>

(***************************************************************************)
(* cmd/events.rs: run finds the service id in the SDT, cues the stream up  *)
(* and sends it through a demuxer whose closure gives every EIT PID a      *)
(* channel and a task (packets_to_events forwarded to the event channel);  *)
(* into_event_map folds the event channel into a BTreeMap keyed by id.     *)
(* A section is a record of what the parsers read from it: ok is whether   *)
(* its parser returns Ok, start and duration are <<>> for the all-ones     *)
(* field, conv is whether the texts of the event decode.                   *)
(***************************************************************************)
SDT_PID == 17
SELF_STREAM_TABLE_ID == 66
OTHER_STREAM_TABLE_ID == 70
EIT_PIDS == {18, 38, 39}

\* find_service_id: the first section of SDT_PID with the self-stream table
\* id that parses gives services[0].service_id; <<>> is "no sid found",
\* "panic" the index out of bounds of an SDT without services.
RECURSIVE FindServiceIdFrom(_, _)
FindServiceIdFrom(src, i) ==
    IF i > Len(src) THEN <<>>
    ELSE IF src[i].pid = SDT_PID /\ src[i].table_id = SELF_STREAM_TABLE_ID /\ src[i].ok
         THEN IF src[i].services = <<>> THEN "panic" ELSE <<src[i].services[1]>>
         ELSE FindServiceIdFrom(src, i + 1)

FindServiceId(src) == FindServiceIdFrom(src, 1)

\* Event::new(id, start, duration) with the texts of the descriptors.
EventNew(e) ==
    [id |-> e.event_id, start |-> e.start[1], duration |-> e.duration[1], title |-> e.title]

\* try_into_event: events without start time or duration are passed over,
\* a text that does not decode fails the whole section.
TryIntoEvent(events) ==
    LET Defined(e) == e.start # <<>> /\ e.duration # <<>>
        kept == SelectSeq(events, Defined)
    IN  IF \E i \in DOMAIN kept : ~kept[i].conv
        THEN [ok |-> FALSE, events |-> <<>>]
        ELSE [ok |-> TRUE, events |-> [i \in DOMAIN kept |-> EventNew(kept[i])]]

\* The filter_map closure of packets_to_events, flattened.
PacketsToEvents(sid, sec) ==
    IF 78 <= sec.table_id /\ sec.table_id <= 111
    THEN IF sec.ok
         THEN IF sec.service_id = sid
              THEN TryIntoEvent(sec.events).events
              ELSE <<>>
         ELSE <<>>
    ELSE <<>>

MaxEvtSections == 3

EvtEvent(id, title, start, duration, conv) ==
    [event_id |-> id, title |-> title, start |-> start, duration |-> duration, conv |-> conv]

EvtSdt(table, services, ok) ==
    [pid |-> SDT_PID, table_id |-> table, ok |-> ok, service_id |-> 0,
     services |-> services, events |-> <<>>]

EvtEit(pid, table, sid, events, ok) ==
    [pid |-> pid, table_id |-> table, ok |-> ok, service_id |-> sid,
     services |-> <<>>, events |-> events]

EvtSectionChoice ==
    { EvtSdt(66, <<1, 2>>, TRUE),
      EvtSdt(70, <<3>>, TRUE),
      EvtSdt(66, <<3>>, FALSE),
      EvtEit(18, 78, 1, <<EvtEvent(5, "a", <<100>>, <<60>>, TRUE)>>, TRUE),
      EvtEit(38, 78, 1, <<EvtEvent(5, "b", <<200>>, <<60>>, TRUE)>>, TRUE),
      EvtEit(39, 80, 2, <<EvtEvent(6, "c", <<300>>, <<30>>, TRUE)>>, TRUE),
      EvtEit(18, 78, 1, <<EvtEvent(7, "d", <<>>, <<60>>, TRUE),
                          EvtEvent(6, "e", <<400>>, <<60>>, TRUE)>>, TRUE),
      EvtEit(18, 79, 3, <<EvtEvent(5, "f", <<500>>, <<60>>, TRUE)>>, TRUE),
      EvtEit(18, 78, 1, <<EvtEvent(5, "g", <<600>>, <<60>>, TRUE)>>, FALSE),
      EvtEit(32, 78, 1, <<EvtEvent(8, "h", <<700>>, <<60>>, TRUE)>>, TRUE),
      EvtEit(38, 78, 1, <<EvtEvent(8, "i", <<800>>, <<60>>, TRUE),
                          EvtEvent(9, "j", <<900>>, <<60>>, FALSE)>>, TRUE) }

EvtInit ==
    /\ evtSrc \in SeqUpTo(EvtSectionChoice, MaxEvtSections)
    /\ evtPos = 0
    /\ evtPhase = "sdt"
    /\ evtSid = 0
    /\ evtTask = <<>>
    /\ evtChan = <<>>
    /\ evtMap = <<>>
    /\ evtOut = <<>>

InitEvt == EvtInit /\ Idle("evt")

\* find_service_id, then cue_up: the events pass reads the stream from its
\* first packet again.
EvtFindServiceId ==
    /\ evtPhase = "sdt"
    /\ LET r == FindServiceId(evtSrc)
       IN  IF r = <<>> \/ r = "panic"
           THEN /\ evtPhase' = "failed"
                /\ UNCHANGED evtSid
           ELSE /\ evtPhase' = "events"
                /\ evtSid' = r[1]
    /\ UNCHANGED <<evtSrc, evtPos, evtTask, evtChan, evtMap, evtOut>>
    /\ Frame("evt")

\* s.forward(demuxer): the first section of an EIT PID makes its channel
\* and spawns its task, a later one waits for room in the channel, a
\* section of another PID is dropped.
EvtForward ==
    /\ evtPhase = "events"
    /\ evtPos < Len(evtSrc)
    /\ LET sec == evtSrc[evtPos + 1]
       IN  IF sec.pid \in EIT_PIDS
           THEN IF sec.pid \in DOMAIN evtTask
                THEN /\ evtTask[sec.pid].queue = <<>>
                     /\ evtTask' = [evtTask EXCEPT ![sec.pid].queue = <<sec>>]
                ELSE evtTask' = MapInsert(evtTask, sec.pid,
                                    [queue |-> <<sec>>, pending |-> <<>>])
           ELSE UNCHANGED evtTask
    /\ evtPos' = evtPos + 1
    /\ UNCHANGED <<evtSrc, evtPhase, evtSid, evtChan, evtMap, evtOut>>
    /\ Frame("evt")

\* The task of a PID takes its next section once the events of the last
\* are all forwarded.
EvtTaskPoll ==
    /\ evtPhase = "events"
    /\ \E pid \in DOMAIN evtTask :
          /\ evtTask[pid].pending = <<>>
          /\ evtTask[pid].queue # <<>>
          /\ evtTask' = [evtTask EXCEPT ![pid] =
                 [queue |-> <<>>, pending |-> PacketsToEvents(evtSid, evtTask[pid].queue[1])]]
    /\ UNCHANGED <<evtSrc, evtPos, evtPhase, evtSid, evtChan, evtMap, evtOut>>
    /\ Frame("evt")

\* .forward(event_tx.clone()) of a task, on the channel(1) the tasks share.
EvtTaskSend ==
    /\ evtPhase = "events"
    /\ evtChan = <<>>
    /\ \E pid \in DOMAIN evtTask :
          /\ evtTask[pid].pending # <<>>
          /\ evtChan' = <<Head(evtTask[pid].pending)>>
          /\ evtTask' = [evtTask EXCEPT ![pid].pending = Tail(@)]
    /\ UNCHANGED <<evtSrc, evtPos, evtPhase, evtSid, evtMap, evtOut>>
    /\ Frame("evt")

\* One step of the fold of into_event_map: out.insert(event.id, event).
EvtInsert ==
    /\ evtPhase = "events"
    /\ evtChan # <<>>
    /\ evtMap' = MapInsert(evtMap, evtChan[1].id, evtChan[1])
    /\ evtChan' = <<>>
    /\ UNCHANGED <<evtSrc, evtPos, evtPhase, evtSid, evtTask, evtOut>>
    /\ Frame("evt")

\* The event channel ends when the demuxer and every task have dropped
\* their senders; run prints event_map.values().
EvtPrint ==
    /\ evtPhase = "events"
    /\ evtPos = Len(evtSrc)
    /\ \A pid \in DOMAIN evtTask : evtTask[pid].queue = <<>> /\ evtTask[pid].pending = <<>>
    /\ evtChan = <<>>
    /\ evtOut' = evtMap
    /\ evtPhase' = "done"
    /\ UNCHANGED <<evtSrc, evtPos, evtSid, evtTask, evtChan, evtMap>>
    /\ Frame("evt")

EvtNext ==
    \/ EvtFindServiceId
    \/ EvtForward
    \/ EvtTaskPoll
    \/ EvtTaskSend
    \/ EvtInsert
    \/ EvtPrint

SpecEvt == InitEvt /\ [][EvtNext]_vars

\* What the events record of a run should be by the specification: the
\* service ids of the first self-stream SDT that parses, the events of the
\* EIT sections of the three PIDs that parse and convert, in source order.
EvtSdtServices ==
    LET hits == {i \in DOMAIN evtSrc :
                    /\ evtSrc[i].pid = SDT_PID
                    /\ evtSrc[i].table_id = SELF_STREAM_TABLE_ID
                    /\ evtSrc[i].ok}
    IN  IF hits = {} THEN {}
        ELSE LET first == CHOOSE i \in hits : \A j \in hits : i <= j
             IN  {evtSrc[first].services[k] : k \in DOMAIN evtSrc[first].services}

EvtIsEit(i) ==
    /\ evtSrc[i].pid \in EIT_PIDS
    /\ 78 <= evtSrc[i].table_id /\ evtSrc[i].table_id <= 111
    /\ evtSrc[i].ok
    /\ TryIntoEvent(evtSrc[i].events).ok

EvtOccurs ==
    {<<i, k>> \in (DOMAIN evtSrc) \X (1..2) :
        /\ EvtIsEit(i)
        /\ k \in DOMAIN evtSrc[i].events
        /\ evtSrc[i].service_id \in EvtSdtServices
        /\ evtSrc[i].events[k].start # <<>>
        /\ evtSrc[i].events[k].duration # <<>>}

EvtLater(a, b) == a[1] < b[1] \/ (a[1] = b[1] /\ a[2] < b[2])

EvtLastOf(id) ==
    CHOOSE a \in EvtOccurs :
        /\ evtSrc[a[1]].events[a[2]].event_id = id
        /\ \A b \in EvtOccurs :
              evtSrc[b[1]].events[b[2]].event_id = id => (b = a \/ EvtLater(b, a))

\* C19: the records of a finished events run are exactly one per event id
\* that occurs, with start time and duration, in an EIT section of a service
\* the SDT lists, each built from the last such event in source order,
\* whatever the interleaving of the three EIT tasks.
EvtOneRecordPerEvent ==
    evtPhase = "done" =>
        /\ DOMAIN evtOut = {evtSrc[a[1]].events[a[2]].event_id : a \in EvtOccurs}
        /\ \A id \in DOMAIN evtOut :
              LET a == EvtLastOf(id)
              IN  evtOut[id] = EventNew(evtSrc[a[1]].events[a[2]])

(***************************************************************************)
(* psi/eit.rs: Event::parse_datetime reads the 16-bit Modified Julian Date *)
(* and the BCD time of a start_time field; jd_to_gregorian is computed in  *)
(* u32, where no term overflows for a 16-bit date.                         *)
(***************************************************************************)
\* parse_hms: <<>> is None (all bits set), else <<h, m, s>> from BCD.
ParseHms(bytes) ==
    IF bytes[1] = 255 /\ bytes[2] = 255 /\ bytes[3] = 255
    THEN <<>>
    ELSE <<(bytes[1] \div 16) * 10 + (bytes[1] % 16),
           (bytes[2] \div 16) * 10 + (bytes[2] % 16),
           (bytes[3] \div 16) * 10 + (bytes[3] % 16)>>

JdToGregorian_Julian(jd) ==
    LET f == jd + 1401
        e == 4 * f + 3
        g == (e % 1461) \div 4
        h == 5 * g + 2
        day == (h % 153) \div 5 + 1
        month == ((h \div 153 + 2) % 12) + 1
        year == (e \div 1461 - 4716) + ((12 + 2 - month) \div 12)
    IN  <<year, month, day>>

JdToGregorian(jd) ==
    LET f == jd + 1401 + (((4 * jd + 274277) \div 146097) * 3) \div 4 - 38
        e == 4 * f + 3
        g == (e % 1461) \div 4
        h == 5 * g + 2
        day == (h % 153) \div 5 + 1
        month == ((h \div 153 + 2) % 12) + 1
        year == (e \div 1461 - 4716) + ((12 + 2 - month) \div 12)
    IN  <<year, month, day>>

\* parse_datetime: None for five bytes of all ones; the unwrap of a time
\* of all ones under another date panics.
ParseDatetime(bytes) ==
    IF \A i \in 1..5 : bytes[i] = 255
    THEN [ret |-> "none", ymd |-> <<>>, hms |-> <<>>]
    ELSE LET mjd == bytes[1] * 256 + bytes[2]
             jd == mjd + 2400000 + 1
             hms == ParseHms(<<bytes[3], bytes[4], bytes[5]>>)
         IN  IF hms = <<>>
             THEN [ret |-> "panic", ymd |-> <<>>, hms |-> <<>>]
             ELSE [ret |-> "some", ymd |-> JdToGregorian(jd), hms |-> hms]

\* Every date of 16 bits, under a time of day and under the time of all
\* ones.
EitTimeChoice == {<<18, 52, 86>>, <<255, 255, 255>>}

EitInit ==
    /\ \E b0 \in 0..255, b1 \in 0..255, t \in EitTimeChoice : eitField = <<b0, b1>> \o t
    /\ eitStart = <<>>

InitEit == EitInit /\ Idle("eit")

EitParseDatetime ==
    /\ eitField # <<>>
    /\ eitStart = <<>>
    /\ eitStart' = <<ParseDatetime(eitField)>>
    /\ UNCHANGED eitField
    /\ Frame("eit")

EitNext == EitParseDatetime

SpecEit == InitEit /\ [][EitNext]_vars

\* The Gregorian calendar, by its rules: the length of each month, and the
\* days from 1858-11-17 (Modified Julian Date 0) to a date, counted over
\* whole years, whole months and days.
EitIsLeap(y) == (y % 4 = 0 /\ y % 100 # 0) \/ y % 400 = 0

EitDaysInMonth(y, m) ==
    IF m = 2 THEN (IF EitIsLeap(y) THEN 29 ELSE 28)
    ELSE IF m \in {4, 6, 9, 11} THEN 30 ELSE 31

RECURSIVE EitDaysBeforeMonth(_, _)
EitDaysBeforeMonth(y, m) ==
    IF m <= 1 THEN 0 ELSE EitDaysBeforeMonth(y, m - 1) + EitDaysInMonth(y, m - 1)

EitDaysBeforeYear(y) ==
    365 * (y - 1) + (y - 1) \div 4 - (y - 1) \div 100 + (y - 1) \div 400

EitDayNumber(y, m, d) == EitDaysBeforeYear(y) + EitDaysBeforeMonth(y, m) + d

EitMjdOf(y, m, d) == EitDayNumber(y, m, d) - EitDayNumber(1858, 11, 17)

\* C20: for every 16-bit Modified Julian Date of a start-time field that
\* parses, the date jd_to_gregorian(mjd + 2400001) gives has a month in
\* 1..12 and a day that exists in that month and year, and counting that
\* date back to a Modified Julian Date gives the value of the field.
EitDateRoundTrip ==
    (eitStart # <<>> /\ eitStart[1].ret = "some") =>
        LET y == eitStart[1].ymd[1]
            m == eitStart[1].ymd[2]
            d == eitStart[1].ymd[3]
        IN  /\ m \in 1..12
            /\ d \in 1..31
            /\ d <= EitDaysInMonth(y, m)
            /\ EitMjdOf(y, m, d) = eitField[1] * 256 + eitField[2]

\* The last date of 16 bits, 2038-04-22, has been parsed.
EitDateRoundTripWitness ==
    /\ eitStart # <<>>
    /\ eitField[1] = 255 /\ eitField[2] = 255
    /\ eitStart[1].ret = "some"
    /\ eitStart[1].ymd = <<2038, 4, 22>>

(***************************************************************************)
(* cmd/jitter.rs: the video task forwards the PTS of the first I-picture   *)
(* and the audio task its first PTS, each take(1), to a channel(1); run    *)
(* zips the two channels and prints (vpts - apts) as u32 / 90000 for the   *)
(* first pair.  A u64 is a sequence of four limbs of 16 bits, lowest       *)
(* first; a 33-bit PTS has limbs <<l0, l1, l2, 0>> with l2 < 2.            *)
(***************************************************************************)
Limb == 2^16

\* x - y over limbs from i on with a borrow in, modulo 2^64.
RECURSIVE LimbSubFrom(_, _, _, _)
LimbSubFrom(x, y, i, borrow) ==
    IF i > Len(x) THEN <<>>
    ELSE LET d == x[i] - y[i] - borrow
         IN  <<d % Limb>> \o LimbSubFrom(x, y, i + 1, IF d < 0 THEN 1 ELSE 0)

\* u64::wrapping_sub
WrappingSubU64(x, y) == LimbSubFrom(x, y, 1, 0)

\* x < y on u64
RECURSIVE LimbLessFrom(_, _, _)
LimbLessFrom(x, y, i) ==
    IF i = 0 THEN FALSE
    ELSE IF x[i] # y[i] THEN x[i] < y[i]
    ELSE LimbLessFrom(x, y, i - 1)

LessU64(x, y) == LimbLessFrom(x, y, Len(x))

\* `as u32` of a u64: the low 32 bits.
AsU32(x) == <<x[1], x[2]>>

\* jitter: f64::from((vpts - apts) as u32) / 90000f64.  The subtraction of
\* a larger apts panics where overflow is checked and wraps where not.
JitterOf(checks, vpts, apts) ==
    IF checks /\ LessU64(vpts, apts)
    THEN [ret |-> "panic", num |-> <<>>]
    ELSE [ret |-> "ok", num |-> AsU32(WrappingSubU64(vpts, apts))]

\* PTS values of 33 bits: 0, 90000, 180000, 2^32 - 1, 2^32, 2^33 - 1.
JitPtsChoice ==
    { <<0, 0, 0, 0>>, <<24464, 1, 0, 0>>, <<48928, 2, 0, 0>>,
      <<65535, 65535, 0, 0>>, <<0, 0, 1, 0>>, <<65535, 65535, 1, 0>> }

JitInit ==
    /\ jitChecks \in BOOLEAN
    /\ \E v \in JitPtsChoice : jitVpts = <<v>>
    /\ \E a \in JitPtsChoice : jitApts = <<a>>
    /\ jitVchan = <<>>
    /\ jitAchan = <<>>
    /\ jitOut = <<>>

InitJit == JitInit /\ Idle("jit")

\* .take(1).forward(vpts_tx) of the video task.
JitVideoForward ==
    /\ jitVpts # <<>>
    /\ jitVchan = <<>>
    /\ jitVchan' = jitVpts
    /\ jitVpts' = <<>>
    /\ UNCHANGED <<jitChecks, jitApts, jitAchan, jitOut>>
    /\ Frame("jit")

\* .take(1).forward(apts_tx) of the audio task.
JitAudioForward ==
    /\ jitApts # <<>>
    /\ jitAchan = <<>>
    /\ jitAchan' = jitApts
    /\ jitApts' = <<>>
    /\ UNCHANGED <<jitChecks, jitVpts, jitVchan, jitOut>>
    /\ Frame("jit")

\* apts_rx.zip(vpts_rx).take(1).for_each: the closure runs on the first
\* pair and prints the jitter.
JitForEach ==
    /\ jitOut = <<>>
    /\ jitAchan # <<>>
    /\ jitVchan # <<>>
    /\ jitOut' = <<[vpts |-> jitVchan[1], apts |-> jitAchan[1]]
                     @@ JitterOf(jitChecks, jitVchan[1], jitAchan[1])>>
    /\ jitAchan' = <<>>
    /\ jitVchan' = <<>>
    /\ UNCHANGED <<jitChecks, jitVpts, jitApts>>
    /\ Frame("jit")

JitNext ==
    \/ JitVideoForward
    \/ JitAudioForward
    \/ JitForEach

SpecJit == InitJit /\ [][JitNext]_vars

\* The exact signed difference v - a of two PTS values: its sign and the
\* limbs of its magnitude.
JitExact(v, a) ==
    IF LessU64(v, a)
    THEN [neg |-> TRUE, mag |-> WrappingSubU64(a, v)]
    ELSE [neg |-> FALSE, mag |-> WrappingSubU64(v, a)]

\* C21: the integer the jitter divides by 90000 is the exact signed
\* difference vpts - apts of the pair, for every pair of 33-bit values:
\* no wrap-around, no truncation, no abort.
JitExactDifference ==
    jitOut # <<>> =>
        LET o == jitOut[1]
            x == JitExact(o.vpts, o.apts)
        IN  /\ o.ret = "ok"
            /\ [neg |-> FALSE, mag |-> o.num \o <<0, 0>>] = x

(***************************************************************************)
(* cmd/common.rs: find_main_meta is find_main_pmt_pid and then find_meta   *)
(* on the stream find_main_pmt_pid hands back (the Cueable itself, through *)
(* three into_inner); cmd/caption.rs cues the stream up once the Meta is   *)
(* found.  Every packet carries one whole section.  A PAT item carries its *)
(* entries and is parsed from its bytes; a PMT item carries what           *)
(* TSProgramMapSection::parse reads from it, with caption telling whether  *)
(* a stream has a stream identifier descriptor of component tag 0x30..0x3f.*)
(***************************************************************************)
STREAM_TYPE_VIDEO == 2
STREAM_TYPE_PES_PRIVATE_DATA == 6
STREAM_TYPE_ADTS == 15

\* The closure of find_main_pmt_pid on one section of PID 0: the PIDs it
\* can return.  `for (program_number, pid) in pas.program_association`
\* walks a HashMap, whose order differs from run to run: any entry of
\* non-zero program_number can be the first met.  {} is None.
FindMainPmtPid(item) ==
    IF item.table_id # PROGRAM_ASSOCIATION_SECTION THEN {}
    ELSE LET pas == PatParse(PatSection(item.entries))
         IN  IF ~pas.ok THEN {}
             ELSE {pas.pa[pn] : pn \in (DOMAIN pas.pa) \ {0}}

\* is_caption
IsCaption(si) == si.stream_type = STREAM_TYPE_PES_PRIVATE_DATA /\ si.caption

\* The first stream of a kind: <<>> or <<elementary_pid>>.
FirstPid(info, Is(_)) ==
    LET hits == {i \in DOMAIN info : Is(info[i])}
    IN  IF hits = {} THEN <<>>
        ELSE <<info[CHOOSE i \in hits : \A j \in hits : i <= j].elementary_pid>>

\* The closure of find_meta on one section of the PMT PID: <<>> for None,
\* or <<Meta>> when video, audio and caption PID are all present.
FindMeta(item) ==
    IF item.table_id # TS_PROGRAM_MAP_SECTION \/ ~item.ok THEN <<>>
    ELSE LET IsVideo(si) == si.stream_type = STREAM_TYPE_VIDEO
             IsAudio(si) == si.stream_type = STREAM_TYPE_ADTS
             v == FirstPid(item.streams, IsVideo)
             a == FirstPid(item.streams, IsAudio)
             c == FirstPid(item.streams, IsCaption)
         IN  IF v # <<>> /\ a # <<>> /\ c # <<>>
             THEN <<[audio_pid |-> a[1], video_pid |-> v[1], caption_pid |-> c[1]]>>
             ELSE <<>>

\* Where find_meta starts in the stream once the PAT scan has taken pos
\* packets: find_main_pmt_pid returns the stream as it stands, not cued up.
FindMetaStart_CuedUp(pos) == 0

FindMetaStart(pos) == pos

MaxFmmItems == 3

FmmPat(table, entries) ==
    [pid |-> PAT_PID, table_id |-> table, ok |-> TRUE, entries |-> entries, streams |-> <<>>]

FmmStream(type, pid, caption) ==
    [stream_type |-> type, elementary_pid |-> pid, caption |-> caption]

FmmPmt(pid, table, ok, streams) ==
    [pid |-> pid, table_id |-> table, ok |-> ok, entries |-> <<>>, streams |-> streams]

FmmItemChoice ==
    { FmmPat(0, <<<<0, 16>>, <<257, 496>>, <<258, 752>>>>),
      FmmPat(0, <<<<0, 16>>>>),
      FmmPat(66, <<<<257, 496>>>>),
      FmmPmt(496, 2, TRUE, <<FmmStream(2, 256, FALSE), FmmStream(15, 257, FALSE),
                             FmmStream(6, 258, TRUE)>>),
      FmmPmt(496, 2, TRUE, <<FmmStream(6, 264, TRUE), FmmStream(2, 262, FALSE),
                             FmmStream(2, 261, FALSE), FmmStream(15, 263, FALSE)>>),
      FmmPmt(496, 2, TRUE, <<FmmStream(2, 256, FALSE), FmmStream(15, 257, FALSE),
                             FmmStream(6, 258, FALSE)>>),
      FmmPmt(496, 2, FALSE, <<>>),
      FmmPmt(752, 2, TRUE, <<FmmStream(15, 513, FALSE), FmmStream(6, 514, TRUE),
                             FmmStream(2, 512, FALSE)>>),
      FmmPmt(256, 0, TRUE, <<>>) }

FmmInit ==
    /\ fmmSrc \in SeqUpTo(FmmItemChoice, MaxFmmItems)
    /\ fmmPos = 0
    /\ fmmPhase = "pat"
    /\ fmmPatAt = 0
    /\ fmmPid = <<>>
    /\ fmmScan = 0
    /\ fmmMetaAt = 0
    /\ fmmMeta = <<>>
    /\ fmmReplay = <<>>

InitFmm == FmmInit /\ Idle("fmm")


\* find_main_pmt_pid polls the Cueable: a packet of another PID is
\* filtered out, a section of PID 0 goes to the closure; with Some(pid)
\* the future resolves and find_meta takes the stream over.
FmmPatPoll ==
    /\ fmmPhase = "pat"
    /\ fmmPos < Len(fmmSrc)
    /\ fmmPos' = fmmPos + 1
    /\ LET item == fmmSrc[fmmPos + 1]
           pids == IF item.pid = PAT_PID THEN FindMainPmtPid(item) ELSE {}
       IN  IF pids = {}
           THEN UNCHANGED <<fmmPhase, fmmPatAt, fmmPid, fmmScan>>
           ELSE /\ \E pid \in pids : fmmPid' = <<pid>>
                /\ fmmPatAt' = fmmPos + 1
                /\ fmmPhase' = "pmt"
                /\ fmmScan' = FindMetaStart(fmmPos + 1)
    /\ UNCHANGED <<fmmSrc, fmmMetaAt, fmmMeta, fmmReplay>>
    /\ Frame("fmm")

\* The source ends before a PAT names a program: "no pid found".
FmmPatEnd ==
    /\ fmmPhase = "pat"
    /\ fmmPos = Len(fmmSrc)
    /\ fmmPhase' = "failed"
    /\ UNCHANGED <<fmmSrc, fmmPos, fmmPatAt, fmmPid, fmmScan, fmmMetaAt, fmmMeta, fmmReplay>>
    /\ Frame("fmm")

\* find_meta polls the stream it was given: a packet of another PID is
\* filtered out, a section of the PMT PID goes to the closure.
FmmPmtPoll ==
    /\ fmmPhase = "pmt"
    /\ fmmScan < Len(fmmSrc)
    /\ fmmScan' = fmmScan + 1
    /\ fmmPos' = IF fmmScan + 1 > fmmPos THEN fmmScan + 1 ELSE fmmPos
    /\ LET item == fmmSrc[fmmScan + 1]
           meta == IF item.pid = fmmPid[1] THEN FindMeta(item) ELSE <<>>
       IN  IF meta = <<>>
           THEN UNCHANGED <<fmmPhase, fmmMetaAt, fmmMeta>>
           ELSE /\ fmmMeta' = meta
                /\ fmmMetaAt' = fmmScan + 1
                /\ fmmPhase' = "found"
    /\ UNCHANGED <<fmmSrc, fmmPatAt, fmmPid, fmmReplay>>
    /\ Frame("fmm")

\* The source ends before a PMT gives a Meta: "no meta found".
FmmPmtEnd ==
    /\ fmmPhase = "pmt"
    /\ fmmScan = Len(fmmSrc)
    /\ fmmPhase' = "failed"
    /\ UNCHANGED <<fmmSrc, fmmPos, fmmPatAt, fmmPid, fmmScan, fmmMetaAt, fmmMeta, fmmReplay>>
    /\ Frame("fmm")

\* run: s.cue_up() on the stream find_main_meta resolved with.
FmmCueUp ==
    /\ fmmPhase = "found"
    /\ fmmPhase' = "pts"
    /\ UNCHANGED <<fmmSrc, fmmPos, fmmPatAt, fmmPid, fmmScan, fmmMetaAt, fmmMeta, fmmReplay>>
    /\ Frame("fmm")

\* find_first_picture_pts polls the cued-up stream: the recorded packets
\* first, then the source.
FmmCuedPoll ==
    /\ fmmPhase = "pts"
    /\ Len(fmmReplay) < Len(fmmSrc)
    /\ fmmReplay' = Append(fmmReplay, fmmSrc[Len(fmmReplay) + 1])
    /\ fmmPos' = IF Len(fmmReplay) + 1 > fmmPos THEN Len(fmmReplay) + 1 ELSE fmmPos
    /\ UNCHANGED <<fmmSrc, fmmPhase, fmmPatAt, fmmPid, fmmScan, fmmMetaAt, fmmMeta>>
    /\ Frame("fmm")

FmmNext ==
    \/ FmmPatPoll
    \/ FmmPatEnd
    \/ FmmPmtPoll
    \/ FmmPmtEnd
    \/ FmmCueUp
    \/ FmmCuedPoll

SpecFmm == InitFmm /\ [][FmmNext]_vars

\* The first entry of the PAT item, in section order, whose program_number
\* is not 0.
FmmFirstProgram(item) ==
    LET nz == {i \in DOMAIN item.entries : item.entries[i][1] # 0}
    IN  item.entries[CHOOSE i \in nz : \A j \in nz : i <= j][2]

\* C22: the main PMT PID is the PID of the first entry, in section order,
\* of non-zero program_number of the PAT section that decided, the same on
\* every run over the same input.
FmmFirstProgramSelected ==
    fmmPid # <<>> => fmmPid[1] = FmmFirstProgram(fmmSrc[fmmPatAt])

\* The packets of the main PMT PID whose section gives a Meta.
FmmGivesMeta(i) == fmmSrc[i].pid = fmmPid[1] /\ FindMeta(fmmSrc[i]) # <<>>

\* The PMT scan reads the stream from its first packet: the Meta comes from
\* the first PMT section of the stream that gives one, a section before the
\* PAT included, and the scan fails only when no section of the stream
\* gives one.
FmmPmtScanFromFirstPacket ==
    /\ fmmMeta # <<>> =>
          /\ FmmGivesMeta(fmmMetaAt)
          /\ \A i \in 1..(fmmMetaAt - 1) : ~FmmGivesMeta(i)
    /\ (fmmPhase = "failed" /\ fmmPid # <<>>) =>
          \A i \in DOMAIN fmmSrc : ~FmmGivesMeta(i)

\* C23: the PMT scan goes on from the packet after the one whose PAT section
\* gave the PMT PID: the Meta comes from the first PMT section after that
\* packet that gives one, a PMT section before the PAT is never seen by the
\* scan, and the scan fails when no section after the PAT gives a Meta.  The
\* stream is cued up once the Meta is found, and the stage after it reads
\* the stream from its first packet.
FmmPmtScanAfterPat ==
    /\ fmmPhase \in {"pmt", "found", "pts"} => fmmPatAt <= fmmScan
    /\ fmmMeta # <<>> =>
          /\ fmmPatAt < fmmMetaAt
          /\ FmmGivesMeta(fmmMetaAt)
          /\ fmmMeta = FindMeta(fmmSrc[fmmMetaAt])
          /\ \A i \in (fmmPatAt + 1)..(fmmMetaAt - 1) : ~FmmGivesMeta(i)
    /\ (fmmPhase = "failed" /\ fmmPid # <<>>) =>
          \A i \in (fmmPatAt + 1)..Len(fmmSrc) : ~FmmGivesMeta(i)
    /\ fmmPhase = "pts" => fmmReplay = SubSeq(fmmSrc, 1, Len(fmmReplay))

\* A PMT section that gives a Meta lies before the PAT, the Meta was taken
\* from a later one, and the cued-up stream has replayed the early one.
FmmPmtScanAfterPatWitness ==
    /\ fmmPhase = "pts"
    /\ \E i \in 1..(fmmPatAt - 1) :
          /\ FmmGivesMeta(i)
          /\ FindMeta(fmmSrc[i]) # fmmMeta
    /\ Len(fmmReplay) >= 1

(***************************************************************************)
(* The PSI reassembler after a continuity gap.                             *)
(***************************************************************************)
\* The first packet without transport error among those a poll took.
PsiFirstTaken(o) ==
    LET taken == {k \in (o.pos - o.took + 1)..o.pos : ~psiUp[k].tei}
    IN  IF taken = {} THEN 0 ELSE CHOOSE k \in taken : \A l \in taken : k <= l

\* The packet is a continuation packet with a payload whose continuity
\* counter is neither `counter` nor the one after it.
PsiIsGap(packet, counter) ==
    /\ ~packet.pusi
    /\ packet.some
    /\ packet.cc # counter
    /\ packet.cc # (counter + 1) % 16

\* Every item a reassembler in the state st returns over the rest of `up`,
\* polled until the stream or the program ends.
RECURSIVE PsiItemsFrom(_, _)
PsiItemsFrom(st, up) ==
    LET r == PsiPollNext(st, up, Len(up), TRUE)
    IN  IF r.kind \in {"end", "panic_index", "panic_split_to"}
        THEN <<[kind |-> r.kind, bytes |-> r.bytes]>>
        ELSE <<[kind |-> r.kind, bytes |-> r.bytes]>> \o PsiItemsFrom(r.st, up)

\* The items of psiOut after its item i.
PsiItemsAfter(i) ==
    [j \in 1..(Len(psiOut) - i) |->
        [kind |-> psiOut[i + j].kind, bytes |-> psiOut[i + j].bytes]]

\* C24: a poll that finds the reassembler Partial and short of a section
\* and takes a continuation packet with a payload whose continuity counter
\* is neither the recorded one nor the one after it returns Discontinued
\* and leaves the reassembler Initial, and Discontinued is returned for no
\* other packet.  After it, packets are discarded until a payload_unit_start
\* packet is taken, and everything returned later is what a new reassembler
\* returns on the packets after the gap: no byte buffered before the gap is
\* in a later section.
PsiGapResets ==
    \A i \in DOMAIN psiOut :
        LET o == psiOut[i]
            f == PsiFirstTaken(o)
        IN  /\ (o.before.state = "Partial" /\ ~PsiBufferFull(o.before.buf) /\ f # 0
                  /\ PsiIsGap(psiUp[f], o.before.counter))
               => (o.kind = "Discontinued" /\ o.pos = f)
            /\ o.kind = "Discontinued" =>
                  /\ o.took >= 1
                  /\ PsiIsGap(psiUp[o.pos], o.after.counter)
                  /\ o.after.state = "Initial"
                  /\ \A j \in (i + 1)..Len(psiOut) :
                        (\A k \in (o.pos + 1)..psiOut[j].pos : psiUp[k].tei \/ ~psiUp[k].pusi)
                        => psiOut[j].kind = "end"
                  /\ IsPrefix(PsiItemsAfter(i),
                              PsiItemsFrom([state |-> "Initial", counter |-> 0,
                                            buf |-> <<>>, pos |-> o.pos], psiUp))

\* A gap met with bytes in the buffer, and a section emitted after it.
PsiGapResetsWitness ==
    \E i \in DOMAIN psiOut :
        /\ psiOut[i].kind = "Discontinued"
        /\ psiOut[i].before.state = "Partial"
        /\ psiOut[i].after.buf # <<>>
        /\ \E j \in (i + 1)..Len(psiOut) : psiOut[j].kind = "section"

\* The polls made so far: those that returned an item, and the last one.
PsiPolls == {psiOut[i] : i \in DOMAIN psiOut} \cup {psiLast[i] : i \in DOMAIN psiLast}

\* C25: a poll that finds the reassembler Partial and short of a section,
\* takes a payload_unit_start packet whose payload holds its pointer field
\* and the bytes it skips, and takes no packet after it, leaves the
\* reassembler Partial with that packet's continuity counter, whatever the
\* counter was, and the section it returns, if any, followed by the buffer
\* is payload[1 + pointer_field ..] of that packet: none of the bytes
\* buffered before are left.
PsiStartReplaces ==
    \A o \in PsiPolls :
        LET f == PsiFirstTaken(o)
        IN  (o.before.state = "Partial" /\ ~PsiBufferFull(o.before.buf)
               /\ f # 0 /\ o.pos = f /\ psiUp[f].pusi /\ PsiGoodStart(psiUp[f]))
            => /\ o.kind \in {"section", "pending", "end"}
               /\ o.after.state = "Partial"
               /\ o.after.counter = psiUp[f].cc
               /\ (IF o.kind = "section" THEN o.bytes ELSE <<>>) \o o.after.buf
                     = SubSeq(psiUp[f].data, 2 + psiUp[f].data[1], Len(psiUp[f].data))

\* A start packet taken with bytes in the buffer, its counter not the next
\* one, and its bytes after the pointer field left in the buffer.
PsiStartReplacesWitness ==
    /\ psiLast # <<>>
    /\ LET o == psiLast[1]
       IN  /\ o.before.state = "Partial"
           /\ o.before.buf # <<>>
           /\ o.took = 1
           /\ psiUp[o.pos].pusi
           /\ PsiGoodStart(psiUp[o.pos])
           /\ psiUp[o.pos].data[1] > 0
           /\ psiUp[o.pos].cc # (o.before.counter + 1) % 16
           /\ o.after.buf # <<>>
           /\ o.after.buf # o.before.buf


(***************************************************************************)
(* The PES reassembler after a continuity gap.                             *)
(***************************************************************************)
\* The first packet without transport error among those a poll took.
PesFirstTaken(o) ==
    LET taken == {k \in (o.at - o.took + 1)..o.at : ~pesUp[k].tei}
    IN  IF taken = {} THEN 0 ELSE CHOOSE k \in taken : \A l \in taken : k <= l

\* Every item a reassembler in the state st returns over the rest of `up`,
\* polled until the stream ends.
RECURSIVE PesItemsFrom(_, _)
PesItemsFrom(st, up) ==
    LET r == PesPollNext(st, up, Len(up), TRUE)
    IN  IF r.kind = "end"
        THEN <<[kind |-> r.kind, bytes |-> r.bytes]>>
        ELSE <<[kind |-> r.kind, bytes |-> r.bytes]>> \o PesItemsFrom(r.st, up)

\* The items of pesOut after its item i.
PesItemsAfter(i) ==
    [j \in 1..(Len(pesOut) - i) |->
        [kind |-> pesOut[i + j].kind, bytes |-> pesOut[i + j].bytes]]

\* The polls made so far: those that returned an item, and the last one.
PesPolls == {pesOut[i] : i \in DOMAIN pesOut} \cup {pesLast[i] : i \in DOMAIN pesLast}

\* C26: a poll that finds the reassembler Buffering and takes a packet with
\* a payload and without payload_unit_start whose continuity counter is
\* neither the recorded one nor the one after it returns the error "pes
\* packet discontinued" and leaves the reassembler Initial with an empty
\* buffer, and that error is returned for no other packet.  After it,
\* packets with a payload are skipped until a payload_unit_start packet is
\* taken, and everything returned later is what a new reassembler returns
\* on the packets after the gap: no byte buffered before the gap is in a
\* later PES packet.  A poll that takes only a packet repeating the
\* recorded counter leaves state, counter and buffer as they were.
PesGapResets ==
    /\ \A i \in DOMAIN pesOut :
        LET o == pesOut[i]
            f == PesFirstTaken(o)
        IN  /\ (o.before.state = "Buffering" /\ f # 0
                  /\ PsiIsGap(pesUp[f], o.before.counter))
               => (o.kind = "pes packet discontinued" /\ o.at = f)
            /\ o.kind = "pes packet discontinued" =>
                  /\ o.took >= 1
                  /\ PsiIsGap(pesUp[o.at], o.after.counter)
                  /\ o.after.state = "Initial"
                  /\ o.after.buf = <<>>
                  /\ \A j \in (i + 1)..Len(pesOut) :
                        (\A k \in (o.at + 1)..pesOut[j].at :
                            pesUp[k].tei \/ ~pesUp[k].pusi)
                        => \/ pesOut[j].kind = "end"
                           \/ /\ pesOut[j].kind = "no data"
                              /\ ~pesUp[pesOut[j].at].some
                  /\ IsPrefix(PesItemsAfter(i),
                              PesItemsFrom([state |-> "Initial", counter |-> 0,
                                            buf |-> <<>>, pos |-> o.at], pesUp))
    /\ \A o \in PesPolls :
        (/\ o.before.state = "Buffering"
         /\ o.took = 1
         /\ ~pesUp[o.at].tei /\ pesUp[o.at].some /\ ~pesUp[o.at].pusi
         /\ pesUp[o.at].cc = o.before.counter)
        => /\ o.after.counter = o.before.counter
           /\ o.kind \in {"pending", "pes", "not enough data"}
           /\ o.kind = "pending" =>
                 (o.after.state = o.before.state /\ o.after.buf = o.before.buf)
           /\ o.kind # "pending" =>
                 /\ o.eos
                 /\ o.kind = "pes" <=> PesGetBytes(o.before.buf).ok
                 /\ o.bytes = PesGetBytes(o.before.buf).bytes

\* A gap met with bytes in the buffer, and a PES packet emitted after it.
PesGapResetsWitness ==
    \E i \in DOMAIN pesOut :
        /\ pesOut[i].kind = "pes packet discontinued"
        /\ pesOut[i].before.buf # <<>>
        /\ \E j \in (i + 1)..Len(pesOut) : pesOut[j].kind = "pes"


(***************************************************************************)
(* arib/string.rs: AribDecoder::decode, one iteration of its loop at a     *)
(* time, on an input made of a few byte groups.                            *)
(***************************************************************************)
\* Bounds: the byte groups an input is made of, and how many of them.
MaxArbTokens == 4
ArbTokenChoice ==
    { <<25>>,               \* SS2
      <<29>>,               \* SS3
      <<14>>,               \* LS1
      <<97>>,               \* 0x61: a letter, a kana, a macro
      <<33, 34>>,           \* 21 22
      <<122, 33>>,          \* 7A 21, a code point of the symbol table
      <<161, 162>>,         \* A1 A2
      <<244>>,              \* F4: 0x74 of the set GR invokes
      <<27, 36, 41, 59>>,   \* ESC $ ) ;  Symbol to G1
      <<27, 36, 42, 59>>,   \* ESC $ * ;  Symbol to G2
      <<27, 40>>,           \* ESC (  with the termination character missing
      <<149>>,              \* MACRO
      <<1>> }               \* a byte of C0 that no arm of control names

RECURSIVE ArbConcat(_)
ArbConcat(tokens) ==
    IF tokens = <<>> THEN <<>> ELSE Head(tokens) \o ArbConcat(Tail(tokens))

\* AribDecoder::with_caption_initialization().decode(bytes.iter())
ArbInit ==
    /\ \E tokens \in SeqUpTo(ArbTokenChoice, MaxArbTokens) : arbIn = ArbConcat(tokens)
    /\ arbPos = 0
    /\ arbSelf = WithCaptionInitialization
    /\ arbString = <<>>
    /\ arbRet = "running"
    /\ arbError = NoError
    /\ arbSteps = <<>>

InitArb == ArbInit /\ Idle("arb")

\* The bytes the iterator has not yielded, and the one peek() shows.
ArbRest == SliceFrom(arbIn, arbPos)

\* An iteration of the loop of decode on a control byte: self.control(..)?
ArbControl ==
    /\ arbRet = "running"
    /\ ArbRest # <<>>
    /\ IsControl(ArbRest[1])
    /\ LET c == Control(arbSelf, ArbRest)
       IN  /\ arbPos' = arbPos + c.used
           /\ arbSelf' = c.self
           /\ arbString' = IF c.ret = "ok" THEN arbString \o c.chars ELSE arbString
           /\ arbRet' = IF c.ret = "ok" THEN "running" ELSE c.ret
           /\ arbError' = c.error
           /\ arbSteps' = Append(arbSteps,
                 [kind |-> "control", at |-> arbPos, used |-> c.used,
                  first |-> ArbRest[1], cs |-> Charset(""), before |-> arbSelf,
                  after |-> c.self, chars |-> c.chars, ret |-> c.ret,
                  error |-> c.error])
    /\ UNCHANGED arbIn
    /\ Frame("arb")

\* An iteration on a graphic byte: the charset is chosen, the single shift
\* taken, the character decoded and its modification applied.
ArbGraphic ==
    /\ arbRet = "running"
    /\ ArbRest # <<>>
    /\ ~IsControl(ArbRest[1])
    /\ LET sel == DecodeCharset(arbSelf, ArbRest[1])
           d == CharsetDecode(sel.cs, ArbRest, <<>>)
           after == IF d.ret = "ok" THEN Apply(sel.self, d.mod) ELSE sel.self
       IN  /\ arbPos' = arbPos + d.used
           /\ arbSelf' = after
           /\ arbString' = IF d.ret = "ok" THEN arbString \o d.chars ELSE arbString
           /\ arbRet' = IF d.ret = "ok" THEN "running" ELSE d.ret
           /\ arbError' = d.error
           /\ arbSteps' = Append(arbSteps,
                 [kind |-> "graphic", at |-> arbPos, used |-> d.used,
                  first |-> ArbRest[1], cs |-> sel.cs, before |-> arbSelf,
                  after |-> after, chars |-> d.chars, ret |-> d.ret,
                  error |-> d.error])
    /\ UNCHANGED arbIn
    /\ Frame("arb")

\* peek() returns None: Ok(string)
ArbReturn ==
    /\ arbRet = "running"
    /\ ArbRest = <<>>
    /\ arbRet' = "ok"
    /\ UNCHANGED <<arbIn, arbPos, arbSelf, arbString, arbError, arbSteps>>
    /\ Frame("arb")

ArbNext == ArbControl \/ ArbGraphic \/ ArbReturn

SpecArb == InitArb /\ [][ArbNext]_vars

\* The loop of decode and the iterations agree on what decode returns.
ArbAgrees ==
    arbRet \in {"ok", "err", "panic"} =>
        LET r == Decode(WithCaptionInitialization, arbIn, <<>>)
        IN  /\ r.ret = arbRet
            /\ r.error = arbError
            /\ arbRet = "ok" => r.string = arbString


(***************************************************************************)
(* The single shift.                                                       *)
(***************************************************************************)
\* The iteration is SS2 or SS3, and the register it names.
ArbIsSingleShift(s) == s.kind = "control" /\ s.first \in {25, 29} /\ s.ret = "ok"
ArbShiftOf(s) == IF s.first = 25 THEN 2 ELSE 3
ArbIsGraphic(s) == s.kind = "graphic"
ArbIsLowGraphic(s) == s.kind = "graphic" /\ s.first < 128

\* No iteration strictly between i and j is of the kind P.
ArbNoneBetween(i, j, P(_)) == \A k \in (i + 1)..(j - 1) : ~P(arbSteps[k])

\* The set GL or GR invokes for the first byte of the character of s.
ArbInvoked(s) ==
    IF s.first < 128 THEN s.before.g[s.before.gl + 1] ELSE s.before.g[s.before.gr + 1]

\* The charsets whose characters are two bytes.
ArbTwoByte(cs) ==
    cs.cs \in {"Kanji", "JISGokanKanji1", "JISGokanKanji2", "Symbol"}
        \/ (cs.cs = "DRCS" /\ cs.n = 0)

\* The claim as it was made: the graphic character that follows SS2 or SS3
\* is decoded through G2 or G3, the single shift is clear after it, the
\* graphic character after that is decoded through GL or GR, and GL, GR and
\* G0..G3 are what they were.
ArbSingleShiftNextGraphic ==
    \A i \in DOMAIN arbSteps : \A j \in DOMAIN arbSteps :
        (/\ i < j
         /\ ArbIsSingleShift(arbSteps[i])
         /\ ArbIsGraphic(arbSteps[j])
         /\ ArbNoneBetween(i, j, ArbIsGraphic)
         /\ ArbNoneBetween(i, j, ArbIsSingleShift))
        => LET s == arbSteps[j]
           IN  /\ s.cs = s.before.g[ArbShiftOf(arbSteps[i]) + 1]
               /\ s.ret = "ok" =>
                     /\ s.after.single = <<>>
                     /\ s.after.gl = arbSteps[i].before.gl
                     /\ s.after.gr = arbSteps[i].before.gr
                     /\ s.after.g = arbSteps[i].before.g
               /\ \A m \in DOMAIN arbSteps :
                     (m > j /\ ArbIsGraphic(arbSteps[m])
                        /\ ArbNoneBetween(j, m, ArbIsSingleShift))
                     => arbSteps[m].cs = ArbInvoked(arbSteps[m])

\* C27: SS2 or SS3 sets the single shift and nothing else and emits
\* nothing.  Of the graphic characters after it, up to the next SS2 or SS3,
\* those whose first byte is 0x80 or more are decoded through GR and leave
\* the single shift set; the first whose first byte is below 0x80 is decoded
\* through G2 or G3 respectively, both bytes of it for a two-byte set, and
\* the single shift is clear once it has been decoded; the decoding changes
\* GL, GR and G0..G3 only if that set is Macro; and the graphic characters
\* after it are decoded through GL or GR as if no single shift had
\* occurred.
ArbSingleShiftNextLow ==
    \A i \in DOMAIN arbSteps :
        ArbIsSingleShift(arbSteps[i]) =>
            LET k == ArbShiftOf(arbSteps[i])
            IN  /\ arbSteps[i].after = [arbSteps[i].before EXCEPT !.single = <<k>>]
                /\ arbSteps[i].chars = <<>>
                /\ arbSteps[i].used = 1
                /\ \A j \in DOMAIN arbSteps :
                      (/\ i < j
                       /\ ArbIsGraphic(arbSteps[j])
                       /\ ArbNoneBetween(i, j, ArbIsLowGraphic)
                       /\ ArbNoneBetween(i, j, ArbIsSingleShift))
                      => LET s == arbSteps[j]
                         IN  /\ s.before.single = <<k>>
                             /\ s.first >= 128 =>
                                   /\ s.cs = s.before.g[s.before.gr + 1]
                                   /\ s.ret = "ok" => s.after.single = <<k>>
                             /\ s.first < 128 =>
                                   /\ s.cs = s.before.g[k + 1]
                                   /\ s.ret = "ok" =>
                                         /\ s.after.single = <<>>
                                         /\ s.used = IF ArbTwoByte(s.cs) THEN 2 ELSE 1
                                         /\ s.cs.cs # "Macro" =>
                                               s.after = [s.before EXCEPT !.single = <<>>]
                                   /\ \A m \in DOMAIN arbSteps :
                                         (m > j /\ ArbIsGraphic(arbSteps[m])
                                            /\ ArbNoneBetween(j, m, ArbIsSingleShift))
                                         => /\ arbSteps[m].before.single = <<>>
                                            /\ arbSteps[m].cs = ArbInvoked(arbSteps[m])

\* SS2, a character through GR that leaves the single shift set, a
\* character through G2, and a character decoded after it.
ArbSingleShiftNextLowWitness ==
    \E i, h, j, m \in DOMAIN arbSteps :
        /\ i < h /\ h < j /\ j < m
        /\ ArbIsSingleShift(arbSteps[i])
        /\ ArbIsGraphic(arbSteps[h]) /\ arbSteps[h].first >= 128
        /\ arbSteps[h].ret = "ok"
        /\ ArbIsLowGraphic(arbSteps[j]) /\ arbSteps[j].ret = "ok"
        /\ arbSteps[j].before.single # <<>>
        /\ arbSteps[j].chars # <<>>
        /\ ArbIsGraphic(arbSteps[m]) /\ arbSteps[m].ret = "ok"


(***************************************************************************)
(* The example of a designation, an invocation and the Symbol set.         *)
(***************************************************************************)
\* ESC $ ) ;   A1 A2   LS1   21 22
ArbExampleInput == <<27, 36, 41, 59, 161, 162, 14, 33, 34>>

\* The decoder after ESC $ ) ; from the caption initial state.
ArbExampleDesignated == [WithCaptionInitialization EXCEPT !.g[2] = Charset("Symbol")]

\* The claim as it was made: the example decodes to two hiragana and two
\* ARIB symbols.
ArbExampleTwoSymbols ==
    (arbIn = ArbExampleInput /\ arbRet # "running") =>
        /\ arbRet = "ok"
        /\ Len(arbString) = 4
        /\ SubSeq(arbString, 1, 2) = <<12353, 12354>>
        /\ \A i \in 3..4 : \E cp \in DOMAIN AribSymbols : <<arbString[i]>> = AribSymbols[cp]

\* C28: from the caption initial state, 1B 24 29 3B sets G1 to Symbol,
\* changes nothing else and emits nothing; A1 and A2 are decoded through
\* GR = G2 = Hiragana as two characters of one byte, U+3041 and U+3042; 0E
\* sets GL to G1 and nothing else; and 21 22 is decoded through the Symbol
\* set as the one code point 0x2122 of two bytes, which emits the one
\* symbol the table has for it or fails with UnknownCodepoint(0x2122,
\* "symbol").
ArbExampleOneCodePoint ==
    arbIn = ArbExampleInput =>
        LET s(i) == arbSteps[i]
            n == Len(arbSteps)
        IN  /\ n <= 5
            /\ n >= 1 =>
                  /\ s(1).kind = "control" /\ s(1).ret = "ok" /\ s(1).used = 4
                  /\ s(1).chars = <<>>
                  /\ s(1).before = WithCaptionInitialization
                  /\ s(1).after = ArbExampleDesignated
            /\ \A i \in {2, 3} : n >= i =>
                  /\ s(i).kind = "graphic" /\ s(i).ret = "ok" /\ s(i).used = 1
                  /\ s(i).cs = Charset("Hiragana")
                  /\ s(i).cs = s(i).before.g[s(i).before.gr + 1]
                  /\ s(i).chars = <<12353 + (i - 2)>>
                  /\ s(i).after = ArbExampleDesignated
            /\ n >= 4 =>
                  /\ s(4).kind = "control" /\ s(4).ret = "ok" /\ s(4).used = 1
                  /\ s(4).chars = <<>>
                  /\ s(4).after = [ArbExampleDesignated EXCEPT !.gl = 1]
            /\ n >= 5 =>
                  /\ s(5).kind = "graphic" /\ s(5).at = 7 /\ s(5).used = 2
                  /\ s(5).cs = Charset("Symbol")
                  /\ IF 8482 \in DOMAIN AribSymbols
                       THEN /\ s(5).ret = "ok"
                            /\ s(5).chars = AribSymbols[8482]
                            /\ Len(s(5).chars) = 1
                       ELSE /\ s(5).ret = "err"
                            /\ s(5).error = UnknownCodepoint(8482, "symbol")
            /\ arbRet # "running" =>
                  /\ n = 5
                  /\ arbRet = s(5).ret
                  /\ arbRet = "ok" => arbString = <<12353, 12354>> \o s(5).chars

\* The example has been decoded to its end.
ArbExampleOneCodePointWitness ==
    /\ arbIn = ArbExampleInput
    /\ arbRet # "running"
    /\ Len(arbSteps) = 5
    /\ arbSteps[5].cs = Charset("Symbol")


(***************************************************************************)
(* C29: for every input, decode returns a string or an error value and     *)
(* never aborts; when the input ends inside a character of two bytes or    *)
(* inside a control sequence, and when ESC is followed by bytes that are   *)
(* no defined invocation or designation, an undefined termination          *)
(* character included, the error is MalformedShortBytes.                   *)
(***************************************************************************)
ArbNeverAborts ==
    /\ arbRet # "panic"
    /\ \A i \in DOMAIN arbSteps :
          LET s == arbSteps[i]
          IN  /\ s.ret \in {"ok", "err"}
              /\ (s.kind = "graphic" /\ ArbTwoByte(s.cs) /\ s.used < 2) =>
                    (s.ret = "err" /\ s.error = MalformedShortBytes)
              /\ (s.kind = "control" /\ s.first = 27 /\ s.ret # "ok") =>
                    (s.ret = "err" /\ s.error = MalformedShortBytes)


(***************************************************************************)
(* Control bytes that no arm of control names.                             *)
(***************************************************************************)
\* The bytes the arms of control name: the invocations, C0 with SP and DEL,
\* C1, and 0xa0 and 0xff.
ArbDefinedControls ==
    {15, 14, 27, 25, 29} \cup {0, 7, 8, 9, 10, 11, 12, 13, 22, 24, 28, 30, 31, 32, 127}
        \cup (128..139) \cup {144, 145, 146, 147, 148, 149, 151, 152, 153, 154, 155, 157}
        \cup {160, 255}

\* MACRO, RPC, SPL and STL.
ArbUnimplemented == {149, 152, 153, 154}

\* The claim as it was made: a control byte that control does not define
\* fails with UnimplementedControl carrying the byte.
ArbUnknownControlFails ==
    \A i \in DOMAIN arbSteps :
        LET s == arbSteps[i]
        IN  (s.kind = "control" /\ s.first \notin ArbDefinedControls) =>
                /\ s.ret = "err"
                /\ s.error = AribError("UnimplementedControl", s.first, "")

\* C30: the controls MACRO (0x95), RPC (0x98), SPL (0x99) and STL (0x9a)
\* make decoding fail with UnimplementedControl carrying that byte, and no
\* other byte does; a control byte that no arm of control names is skipped:
\* it is taken alone, emits nothing, leaves the decoder as it was, and
\* decoding goes on.
ArbUnimplementedControlFails ==
    \A i \in DOMAIN arbSteps :
        LET s == arbSteps[i]
        IN  /\ (s.kind = "control" /\ s.first \in ArbUnimplemented) =>
                  /\ s.ret = "err"
                  /\ s.error = AribError("UnimplementedControl", s.first, "")
                  /\ arbRet = "err" /\ arbError = s.error
            /\ s.error.name = "UnimplementedControl" =>
                  (s.kind = "control" /\ s.first \in ArbUnimplemented)
            /\ (s.kind = "control" /\ s.first \notin ArbDefinedControls) =>
                  /\ IsControl(s.first)
                  /\ s.ret = "ok"
                  /\ s.used = 1
                  /\ s.chars = <<>>
                  /\ s.after = s.before
                  /\ i = Len(arbSteps) =>
                        (arbRet \in {"running", "ok"} /\ arbPos = s.at + 1)

\* A byte that control does not name has been skipped, and MACRO has then
\* made decoding fail.
ArbUnimplementedControlFailsWitness ==
    \E i, j \in DOMAIN arbSteps :
        /\ i < j
        /\ arbSteps[i].kind = "control"
        /\ arbSteps[i].first \notin ArbDefinedControls
        /\ arbSteps[j].kind = "control"
        /\ arbSteps[j].first \in ArbUnimplemented
        /\ arbRet = "err"


(***************************************************************************)
(* arib/string.rs: the styling controls of AribDecoder::control, decoded   *)
(* with the bytes that may follow them.                                    *)
(***************************************************************************)
\* The colours and sizes, SPL; SZX, FLC, POL, WMM, HLC; COL, CDC; CSI; TIME.
ArbStyleControls ==
    (128..138) \cup {153} \cup {139, 145, 147, 148, 151} \cup {144, 146} \cup {155, 157}

\* Bounds: the bytes that follow the control, and how many of them.
MaxArbStyleBytes == 3
ArbStyleByteChoice == {32, 40, 41, 48, 72, 161}

\* decode of [SS2] control bytes.. from the caption initial state.
ArbStyleInit ==
    /\ \E shift \in {<<>>, <<25>>}, c \in ArbStyleControls,
          rest \in SeqUpTo(ArbStyleByteChoice, MaxArbStyleBytes) :
            arbIn = shift \o <<c>> \o rest
    /\ arbPos = 0
    /\ arbSelf = WithCaptionInitialization
    /\ arbString = <<>>
    /\ arbRet = "running"
    /\ arbError = NoError
    /\ arbSteps = <<>>

InitArbStyle == ArbStyleInit /\ Idle("arb")

SpecArbStyle == InitArbStyle /\ [][ArbNext]_vars

\* How many bytes of `bytes`, which begin with a styling control, the
\* control and its parameters are; 0 when the parameters are not all there
\* or TIME has another first parameter than 0x20, 0x28 or 0x29.
ArbStyleTakes(bytes, noParameter) ==
    LET c == bytes[1]
        n == Len(bytes)
        final(from) == {i \in from..n : bytes[i] >= 64}
        upTo(from) == IF final(from) = {} THEN 0
                      ELSE CHOOSE i \in final(from) : \A j \in final(from) : i <= j
    IN  IF c \in noParameter THEN 1
        ELSE IF c \in {139, 145, 147, 148, 151} THEN (IF n >= 2 THEN 2 ELSE 0)
        ELSE IF c \in {144, 146}
          THEN IF n < 2 THEN 0
               ELSE IF bytes[2] # 32 THEN 2
               ELSE IF n >= 3 THEN 3 ELSE 0
        ELSE IF c = 155 THEN upTo(2)
        ELSE IF c = 157
          THEN IF n < 2 THEN 0
               ELSE IF bytes[2] \in {32, 40} THEN (IF n >= 3 THEN 3 ELSE 0)
               ELSE IF bytes[2] = 41 THEN upTo(3)
               ELSE 0
        ELSE 0

\* The iteration s took a styling control and `takes` bytes, emitted
\* nothing and left the decoder as it was.
ArbStyleConsumed(s, takes) ==
    /\ s.ret = "ok"
    /\ s.used = takes
    /\ s.chars = <<>>
    /\ s.after = s.before

\* The claim as it was made: SPL is among the controls without parameter
\* that are consumed without error.
ArbStylingConsumedWithSpl ==
    \A i \in DOMAIN arbSteps :
        LET s == arbSteps[i]
            takes == ArbStyleTakes(SliceFrom(arbIn, s.at), (128..138) \cup {153})
        IN  (s.kind = "control" /\ s.first \in ArbStyleControls /\ takes # 0)
                => ArbStyleConsumed(s, takes)

\* C31: each styling control is consumed together with its parameter
\* bytes, without error, without emitting a character and without changing
\* G0..G3, GL, GR or the single shift, and decoding resumes at the first
\* byte after its parameters: 0x80..0x8A take no parameter; SZX, FLC, POL,
\* WMM and HLC take one byte; COL and CDC take one byte, or two when the
\* first is 0x20; CSI takes bytes up to and including the first byte
\* >= 0x40; TIME takes one more byte after 0x20 or 0x28 and bytes up to the
\* first one >= 0x40 after 0x29.  SPL (0x99) is not consumed: it makes
\* decoding fail with UnimplementedControl.
ArbStylingConsumed ==
    \A i \in DOMAIN arbSteps :
        LET s == arbSteps[i]
            takes == ArbStyleTakes(SliceFrom(arbIn, s.at), 128..138)
        IN  /\ (s.kind = "control" /\ s.first \in ArbStyleControls /\ takes # 0) =>
                  /\ ArbStyleConsumed(s, takes)
                  /\ i < Len(arbSteps) => arbSteps[i + 1].at = s.at + takes
                  /\ i = Len(arbSteps) => arbPos = s.at + takes
            /\ (s.kind = "control" /\ s.first = 153) =>
                  /\ s.ret = "err"
                  /\ s.error = AribError("UnimplementedControl", 153, "")

\* TIME 0x29 or CSI has taken parameters up to a byte >= 0x40 with the
\* single shift set, and a character has been decoded after it.
ArbStylingConsumedWitness ==
    \E i \in DOMAIN arbSteps :
        /\ arbSteps[i].kind = "control"
        /\ arbSteps[i].first \in {155, 157}
        /\ arbSteps[i].ret = "ok"
        /\ arbSteps[i].used >= 3
        /\ arbSteps[i].before.single # <<>>
        /\ i < Len(arbSteps)
        /\ arbSteps[i + 1].kind = "graphic"
        /\ arbSteps[i + 1].ret = "ok"


(***************************************************************************)
(* cmd/events.rs: try_into_event, the body of the loop for one event with  *)
(* a start time and a duration.  A descriptor is a record with its kind    *)
(* and, for an extended event descriptor, its items; an item is its two    *)
(* ARIB strings as bytes.                                                  *)
(***************************************************************************)
WithEventInitialization ==
    [single |-> <<>>, gl |-> 0, gr |-> 2,
     g |-> <<Charset("JISGokanKanji1"), Charset("Alnum"),
             Charset("Hiragana"), Charset("Katakana")>>]

\* arib::string::decode_to_utf8: the bytes decoded by a decoder with the
\* event initialization.
DecodeToUtf8(bytes) == Decode(WithEventInitialization, bytes, <<>>)

\* Bound: the items of the event.
MaxTieItems == 3

\* Hiragana through GR, the control SSZ alone, the empty string.
TieDescriptionChoice == {<<>>, <<162>>, <<164>>, <<136>>}

\* Hiragana through GR, LS1 alone, and an "a" that needs LS1 before it.
TieBodyChoice == {<<162>>, <<14>>, <<97>>}

TieItemChoice ==
    {[item_description |-> d, item |-> b] : d \in TieDescriptionChoice, b \in TieBodyChoice}

\* An event whose items are in two extended event descriptors with a short
\* event descriptor between them.
TieInit ==
    /\ \E items \in SeqUpTo(TieItemChoice, MaxTieItems) : \E cut \in 0..Len(items) :
          tieIn = << [kind |-> "ExtendedEventDescriptor",
                      items |-> SubSeq(items, 1, cut), event_name |-> <<>>],
                     [kind |-> "ShortEventDescriptor", items |-> <<>>,
                      event_name |-> <<162>>],
                     [kind |-> "ExtendedEventDescriptor",
                      items |-> SubSeq(items, cut + 1, Len(items)), event_name |-> <<>>] >>
    /\ tieD = 1
    /\ tieI = 0
    /\ tieItemDescs = <<>>
    /\ tieItems = <<>>
    /\ tieDetail = {}
    /\ tieTitle = <<>>
    /\ tieRet = "running"
    /\ tieLog = <<>>
    /\ tiePc = "loop"

InitTie == TieInit /\ Idle("tie")

\* BTreeMap::insert: the value of an equal key is replaced.
DetailInsert(detail, d, i) == {p \in detail : p[1] # d} \cup {<<d, i>>}

\* The condition of event.detail.insert.
TieRecordable_Always(d, i) == TRUE
TieRecordable(d, i) == d # <<>> /\ i # <<>>

\* The decode of item_descs and items and the insert; ok is whether both
\* decoded, and detail the map after it.
TieFlush(item_descs, items, detail) ==
    LET both == [k \in 1..2 |->
                    DecodeToUtf8(Concat(IF k = 1 THEN item_descs ELSE items))]
        d == both[1]
        i == both[2]
        ok == d.ret = "ok" /\ i.ret = "ok"
        rec == ok /\ TieRecordable(d.string, i.string)
    IN  [ok |-> ok, d |-> d.string, i |-> i.string, recorded |-> rec,
         descs |-> item_descs, items |-> items,
         detail |-> IF rec THEN DetailInsert(detail, d.string, i.string) ELSE detail]

\* Whether the outer loop is at an extended event descriptor with an item
\* left.
TieAtItem ==
    /\ tieD <= Len(tieIn)
    /\ tieIn[tieD].kind = "ExtendedEventDescriptor"
    /\ tieI < Len(tieIn[tieD].items)

\* The decode of item_descs and items with the insert: in the loop before
\* an item with a non-empty description, where the two lists are cleared
\* after it, and after the descriptors.  A string that does not decode
\* ends try_into_event with the error.
TieDecodeInsert ==
    /\ Frame("tie")
    /\ tieRet = "running"
    /\ tiePc = "loop"
    /\ \/ TieAtItem /\ tieIn[tieD].items[tieI + 1].item_description # <<>>
       \/ tieD > Len(tieIn)
    /\ LET f == TieFlush(tieItemDescs, tieItems, tieDetail)
       IN  /\ tieLog' = Append(tieLog, f)
           /\ IF f.ok
              THEN /\ tieDetail' = f.detail
                   /\ tiePc' = "decoded"
                   /\ tieRet' = tieRet
                   /\ tieItemDescs' = IF tieD > Len(tieIn) THEN tieItemDescs ELSE <<>>
                   /\ tieItems' = IF tieD > Len(tieIn) THEN tieItems ELSE <<>>
              ELSE /\ tieRet' = "err"
                   /\ UNCHANGED <<tieDetail, tiePc, tieItemDescs, tieItems>>
    /\ UNCHANGED <<tieIn, tieD, tieI, tieTitle>>

\* The two pushes that end an iteration of `for item in e.items.iter()`.
TieExtendedItem ==
    /\ Frame("tie")
    /\ tieRet = "running"
    /\ TieAtItem
    /\ LET item == tieIn[tieD].items[tieI + 1]
       IN  /\ item.item_description # <<>> => tiePc = "decoded"
           /\ tieItemDescs' = Append(tieItemDescs, item.item_description)
           /\ tieItems' = Append(tieItems, item.item)
    /\ tieI' = tieI + 1
    /\ tiePc' = "loop"
    /\ UNCHANGED <<tieIn, tieD, tieDetail, tieTitle, tieRet, tieLog>>

\* The items of the extended event descriptor are through.
TieExtendedDone ==
    /\ Frame("tie")
    /\ tieRet = "running"
    /\ tieD <= Len(tieIn)
    /\ tieIn[tieD].kind = "ExtendedEventDescriptor"
    /\ tieI = Len(tieIn[tieD].items)
    /\ tieD' = tieD + 1
    /\ tieI' = 0
    /\ UNCHANGED <<tieIn, tieItemDescs, tieItems, tieDetail, tieTitle, tieRet, tieLog, tiePc>>

\* The arm of ShortEventDescriptor; the title is the Debug form of the name.
TieShortEvent ==
    /\ Frame("tie")
    /\ tieRet = "running"
    /\ tieD <= Len(tieIn)
    /\ tieIn[tieD].kind = "ShortEventDescriptor"
    /\ tieTitle' = <<"{:?}", tieIn[tieD].event_name>>
    /\ tieD' = tieD + 1
    /\ tieI' = 0
    /\ UNCHANGED <<tieIn, tieItemDescs, tieItems, tieDetail, tieRet, tieLog, tiePc>>

\* events.push(event), after the last decode and insert.
TiePush ==
    /\ Frame("tie")
    /\ tieRet = "running"
    /\ tieD > Len(tieIn)
    /\ tiePc = "decoded"
    /\ tieRet' = "ok"
    /\ UNCHANGED <<tieIn, tieD, tieI, tieItemDescs, tieItems, tieDetail, tieTitle, tieLog, tiePc>>

TieNext ==
    \/ TieDecodeInsert
    \/ TieExtendedItem
    \/ TieExtendedDone
    \/ TieShortEvent
    \/ TiePush

SpecTie == InitTie /\ [][TieNext]_vars

\* The extended-event items of all the descriptors, in order.
TieAllItems ==
    Concat([k \in DOMAIN tieIn |->
               IF tieIn[k].kind = "ExtendedEventDescriptor" THEN tieIn[k].items ELSE <<>>])

\* The items the loops have taken so far.
TieTaken ==
    LET before == Concat([k \in DOMAIN tieIn |->
                   IF k < tieD /\ tieIn[k].kind = "ExtendedEventDescriptor"
                   THEN tieIn[k].items ELSE <<>>])
    IN  IF tieD <= Len(tieIn) THEN before \o SubSeq(tieIn[tieD].items, 1, tieI) ELSE before

\* The positions in `all` of the items with a non-empty description.
TieStarts(all) == {k \in DOMAIN all : all[k].item_description # <<>>}

\* The n-th pair, n from 1: the items from the (n-1)-th start (or from the
\* first item, for n = 1) up to the item before the n-th start (or the last).
TiePairItems(all, starts, n) ==
    LET from == IF n = 1 THEN 1
                ELSE CHOOSE k \in starts : Cardinality({j \in starts : j <= k}) = n - 1
        later == {k \in starts : k > from \/ (n = 1 /\ k = from)}
        to == IF later = {} THEN Len(all)
              ELSE (CHOOSE k \in later : \A j \in later : k <= j) - 1
    IN  SubSeq(all, from, to)

\* C32: within one event, going through the extended-event items of all
\* its descriptors in order, an item with a non-empty description starts a
\* new (description, body) pair and an item with an empty description
\* appends its body to the current pair; each pair is recorded in the
\* event's detail when the next non-empty description appears or at the end
\* of the event, provided its decoded description and decoded body are both
\* non-empty, and no item body is recorded under a description other than
\* the most recent non-empty one.
TiePairsRecorded ==
    LET all == TieAllItems
        starts == TieStarts(all)
    IN
    /\ \A n \in DOMAIN tieLog :
          LET f == tieLog[n]
              pair == TiePairItems(all, starts, n)
              descs == [k \in DOMAIN pair |-> pair[k].item_description]
              bodies == [k \in DOMAIN pair |-> pair[k].item]
          IN  /\ f.descs = descs
              /\ f.items = bodies
              /\ \A k \in DOMAIN descs : k > 1 => descs[k] = <<>>
              /\ f.ok => /\ f.d = DecodeToUtf8(Concat(descs)).string
                         /\ f.i = DecodeToUtf8(Concat(bodies)).string
                         /\ f.recorded <=> (f.d # <<>> /\ f.i # <<>>)
                         /\ f.recorded => <<f.d, f.i>> \in f.detail
                         /\ ~f.recorded => (n > 1 => f.detail = tieLog[n - 1].detail)
                                           /\ (n = 1 => f.detail = {})
    /\ tieRet = "running" =>
          Len(tieLog) = Cardinality({k \in starts : k <= Len(TieTaken)})
                            + (IF tiePc = "decoded" THEN 1 ELSE 0)
    /\ tieRet = "ok" =>
          /\ Len(tieLog) = Cardinality(starts) + 1
          /\ tieDetail = tieLog[Len(tieLog)].detail
          /\ \A p \in tieDetail :
                \E n \in DOMAIN tieLog :
                    /\ tieLog[n].recorded
                    /\ p = <<tieLog[n].d, tieLog[n].i>>
                    /\ \A m \in DOMAIN tieLog :
                          (m > n /\ tieLog[m].recorded) => tieLog[m].d # p[1]

\* An event of two descriptors is pushed with two pairs in its detail, one
\* of them with a body of two items that lie in different descriptors.
TiePairsRecordedWitness ==
    /\ tieRet = "ok"
    /\ Cardinality(tieDetail) = 2
    /\ \E n \in DOMAIN tieLog : tieLog[n].recorded /\ Len(tieLog[n].items) = 2
    /\ Len(tieIn[1].items) = 1


(***************************************************************************)
(* psi/pat.rs and cmd/common.rs: a program association section, whole or   *)
(* with one byte changed after its CRC-32 was computed, is parsed and      *)
(* given to the closure of find_main_pmt_pid.                              *)
(***************************************************************************)
\* The byte at index k (from 0) with its lowest bit flipped; k = -1 leaves
\* the bytes as they are.
PasFlip(bytes, k) ==
    [i \in DOMAIN bytes |->
        IF i = k + 1 THEN (IF bytes[i] % 2 = 0 THEN bytes[i] + 1 ELSE bytes[i] - 1)
        ELSE bytes[i]]

\* Unchanged, last_section_number changed, the last byte of the CRC changed.
PasFlipChoice(bytes) == {-1, 7, Len(bytes) - 1}

PasInit ==
    /\ \E es \in SeqUpTo(PatEntryChoice, MaxPatEntries) :
          \E k \in PasFlipChoice(PatSection(es)) : pasBytes = PasFlip(PatSection(es), k)
    /\ pasParsed = <<>>
    /\ pasMain = <<>>

InitPas == PasInit /\ Idle("pas")

\* ProgramAssociationSection::parse(bytes)
PasParse ==
    /\ Frame("pas")
    /\ pasParsed = <<>>
    /\ pasParsed' = <<PatParse(pasBytes)>>
    /\ UNCHANGED <<pasBytes, pasMain>>

\* The closure of find_main_pmt_pid on the section: None, or Some(pid) of
\* the entry of non-zero program_number the HashMap yields first.
PasFindMainPmtPid ==
    /\ Frame("pas")
    /\ pasParsed # <<>>
    /\ pasMain = <<>>
    /\ LET pas == pasParsed[1]
           pids == IF At(pasBytes, 0) = PROGRAM_ASSOCIATION_SECTION /\ pas.ok
                   THEN {pas.pa[pn] : pn \in (DOMAIN pas.pa) \ {0}}
                   ELSE {}
       IN  IF pids = {} THEN pasMain' = <<"None">>
           ELSE \E pid \in pids : pasMain' = <<"Some", pid>>
    /\ UNCHANGED <<pasBytes, pasParsed>>

PasNext ==
    \/ PasParse
    \/ PasFindMainPmtPid

SpecPas == InitPas /\ [][PasNext]_vars

\* Whether the last 4 bytes of the section are the MPEG-2 CRC-32 of the
\* bytes before them, computed bit by bit.
PasCrcMatches(bytes) ==
    Slice(bytes, Len(bytes) - 4, Len(bytes)) = RefCrc32(Slice(bytes, 0, Len(bytes) - 4))

\* C33: PAT decoding verifies the trailing CRC-32: a PAT section whose last
\* 4 bytes differ from the MPEG-2 CRC-32 of the section bytes before them
\* is rejected and the section is discarded (the closure of
\* find_main_pmt_pid returns None for it).
PasCrcVerified ==
    ~PasCrcMatches(pasBytes) =>
        /\ pasParsed # <<>> => ~pasParsed[1].ok
        /\ pasMain # <<>> => pasMain = <<"None">>


(***************************************************************************)
(* ts/packet.rs: TSPacketDecoder::decode and AdaptationField::decode.      *)
(* Some(x) is <<x>> and None is <<>>.                                      *)
(***************************************************************************)
\* AdaptationField::decode(src): the field and how many bytes it is, or the
\* error of check_len!.
AdaptationFieldDecode_LengthOnly(src) ==
    IF Len(src) < 1 THEN [ok |-> FALSE, raw |-> <<>>, n |-> 0]
    ELSE IF Len(src) < At(src, 0) + 1 THEN [ok |-> FALSE, raw |-> <<>>, n |-> 0]
    ELSE [ok |-> TRUE, raw |-> Slice(src, 0, At(src, 0) + 1), n |-> At(src, 0)]
AdaptationFieldDecode(src) ==
    IF Len(src) < 1 THEN [ok |-> FALSE, raw |-> <<>>, n |-> 0]
    ELSE IF Len(src) < At(src, 0) + 1 THEN [ok |-> FALSE, raw |-> <<>>, n |-> 0]
    ELSE [ok |-> TRUE, raw |-> Slice(src, 0, At(src, 0) + 1), n |-> At(src, 0) + 1]

\* TSPacketDecoder::decode(src): "none" while fewer than 188 bytes are
\* buffered, "err" for a wrong sync byte or a failed adaptation field,
\* else the packet made of the first 188 bytes.
TSPacketDecode(src) ==
    LET none == [ret |-> "none", transport_error_indicator |-> FALSE,
                 adaptation_field_control |-> 0, adaptation_field |-> <<>>,
                 data |-> <<>>, raw |-> <<>>]
        raw == Slice(src, 0, TS_PACKET_LENGTH)
        afc == PacketAfc(raw)
        af == IF afc \in {2, 3} THEN AdaptationFieldDecode(SliceFrom(raw, 4))
              ELSE [ok |-> TRUE, raw |-> <<>>, n |-> 0]
    IN  IF Len(src) < TS_PACKET_LENGTH THEN none
        ELSE IF At(src, 0) # SYNC_BYTE THEN [none EXCEPT !.ret = "err"]
        ELSE IF PacketTei(raw)
        THEN [ret |-> "some", transport_error_indicator |-> TRUE,
              adaptation_field_control |-> afc, adaptation_field |-> <<>>,
              data |-> <<>>, raw |-> raw]
        ELSE IF ~af.ok THEN [none EXCEPT !.ret = "err"]
        ELSE [ret |-> "some", transport_error_indicator |-> FALSE,
              adaptation_field_control |-> afc,
              adaptation_field |-> IF afc \in {2, 3} THEN <<af.raw>> ELSE <<>>,
              data |-> IF afc \in {1, 3} THEN <<SliceFrom(raw, 4 + af.n)>> ELSE <<>>,
              raw |-> raw]

\* The buffers: a header, the byte at offset 4, and after it bytes that
\* tell their offset.
TsdLengthChoice == {0, 1, 7, 182, 183, 184, 255}
TsdBufferLengthChoice == {100, 188, 200}

TsdInit ==
    /\ \E sync \in {SYNC_BYTE, 72}, tei \in BOOLEAN, pusi \in BOOLEAN, afc \in 0..3,
          n \in TsdLengthChoice, len \in TsdBufferLengthChoice :
            tsdSrc = [i \in 1..len |->
                        CASE i = 1 -> sync
                          [] i = 2 -> (IF tei THEN 128 ELSE 0) + (IF pusi THEN 64 ELSE 0) + 1
                          [] i = 3 -> 0
                          [] i = 4 -> afc * 16 + 5
                          [] i = 5 -> n
                          [] OTHER -> i - 1]
    /\ tsdOut = <<>>

InitTsd == TsdInit /\ Idle("tsd")

TsdDecode ==
    /\ Frame("tsd")
    /\ tsdOut = <<>>
    /\ tsdOut' = <<TSPacketDecode(tsdSrc)>>
    /\ UNCHANGED tsdSrc

TsdNext == TsdDecode

SpecTsd == InitTsd /\ [][TsdNext]_vars

\* The 188 bytes decode is given hold a sync byte and no transport error.
TsdPacketGiven ==
    /\ tsdOut # <<>>
    /\ Len(tsdSrc) >= TS_PACKET_LENGTH
    /\ At(tsdSrc, 0) = SYNC_BYTE
    /\ BitAnd(At(tsdSrc, 1), 128) = 0

\* How decode ends for the adaptation_field_control afc and the byte n at
\* offset 4 when the payload of 11 begins at offset `start`.
TsdPayloadAt(afc, n, start) ==
    LET out == tsdOut[1]
        bytes == Slice(tsdSrc, 0, TS_PACKET_LENGTH)
    IN  /\ (afc \in {2, 3} /\ 4 + 1 + n > TS_PACKET_LENGTH) => out.ret = "err"
        /\ (afc = 3 /\ 4 + 1 + n <= TS_PACKET_LENGTH) =>
              out.ret = "some" /\ out.data = <<SliceFrom(bytes, start)>>
        /\ afc = 1 => out.ret = "some" /\ out.data = <<Slice(bytes, 4, 188)>>
        /\ (afc = 0 \/ (afc = 2 /\ 4 + 1 + n <= TS_PACKET_LENGTH)) =>
              out.ret = "some" /\ out.data = <<>>

\* The claim as it was made: with adaptation_field_control 11 the payload
\* begins at offset 4 + n.
TsdPayloadAfterLength ==
    TsdPacketGiven =>
        TsdPayloadAt((At(tsdSrc, 3) \div 16) % 4, At(tsdSrc, 4), 4 + At(tsdSrc, 4))

\* C34: for a 188-byte packet without transport error, with
\* adaptation-field length byte n at offset 4: when
\* adaptation_field_control is 11 the payload begins at offset 5 + n, after
\* the length byte and the n bytes it counts; when it is 01 the payload is
\* bytes [4, 188); when it is 10 or 00 the packet has no payload.  A length
\* byte that makes the adaptation field extend past the packet is an error.
TsdPayloadAfterField ==
    TsdPacketGiven =>
        TsdPayloadAt((At(tsdSrc, 3) \div 16) % 4, At(tsdSrc, 4), 5 + At(tsdSrc, 4))

\* A packet with adaptation field and payload has been decoded, and the
\* payload is not empty.
TsdPayloadAfterFieldWitness ==
    /\ TsdPacketGiven
    /\ tsdOut[1].ret = "some"
    /\ tsdOut[1].adaptation_field_control = 3
    /\ At(tsdSrc, 4) = 7
    /\ tsdOut[1].data # <<>>
    /\ Len(tsdOut[1].data[1]) = 176


(***************************************************************************)
(* cmd/clean.rs: keep-set discovery under a scheduler that runs whatever   *)
(* can run: the executor polls ForwardUntilResolved and every spawned task *)
(* again whenever one of them was notified, so a step that stays possible  *)
(* is eventually taken.                                                    *)
(***************************************************************************)
\* The inputs of at most one section after the PAT, no service index given.
InitKpsLive == InitKps /\ kpsIndex = <<>> /\ Len(kpsSrc) <= 1

SpecKpsLive == InitKpsLive /\ [][KpsNext]_vars /\ WF_vars(KpsNext)

\* C35: on every finite input, keep-set discovery in Clean eventually
\* finishes, with a keep-set or with an error, also when the input ends
\* before a PMT section has been received for every PMT PID listed in the
\* PAT; the operation never waits forever after end of input.
KpsEventuallyFinishes == <>(kpsPhase \in {"done", "failed"})


(***************************************************************************)
(* cmd/caption.rs: dump_caption on the data groups of a caption stream,    *)
(* one data unit at a time.                                                *)
(***************************************************************************)
\* DRCSProcessor::clear_code_map
ClearCodeMap_Keeps(proc) == proc
ClearCodeMap(proc) == [proc EXCEPT !.code_map = <<>>]

\* DRCSProcessor::code_map: a clone of the map.
CodeMap(proc) == proc.code_map

\* Bound: the data units and data group boundaries of the input.
MaxDcpTokens == 4

\* A second code, with a font load_map knows; a Text unit that uses it:
\* ESC 0x29 0x20 0x41 designates DRCS-1 to G1, LS1, the code 0x4122.
DrcsHitB == DrcsUnit(TRUE, <<[character_code |-> 16674, fonts |-> <<1>>]>>)
TextDrcsB == TextUnit(<<27, 41, 32, 65, 14, 34>>, <<9786>>, TRUE)

DcpUnitChoice == {DrcsHit, DrcsMiss, DrcsHitB, TextDrcs, TextDrcsB, TextLs1, OtherUnit}

\* The end of a data group in the input.
DcpBoundary == [param |-> "|", data |-> <<>>, text |-> <<>>, ok |-> TRUE, codes |-> <<>>]

\* The data groups of a sequence of data units and boundaries.
RECURSIVE DcpGroups(_, _, _)
DcpGroups(tokens, group, groups) ==
    IF tokens = <<>> THEN Append(groups, group)
    ELSE IF Head(tokens).param = "|" THEN DcpGroups(Tail(tokens), <<>>, Append(groups, group))
    ELSE DcpGroups(Tail(tokens), Append(group, Head(tokens)), groups)

DcpInit ==
    /\ \E tokens \in SeqUpTo(DcpUnitChoice \cup {DcpBoundary}, MaxDcpTokens) :
          dcpIn = DcpGroups(tokens, <<>>, <<>>)
    /\ dcpPolicy \in CapPolicyChoice
    /\ dcpG = 1
    /\ dcpK = 0
    /\ dcpPc = "clear"
    /\ dcpProc = [unknown |-> {}, code_map |-> <<>>]
    /\ dcpRet = "running"
    /\ dcpLog = <<>>

InitDcp == DcpInit /\ Idle("dcp")

\* dump_caption begins: drcs_processor.clear_code_map().
DcpClear ==
    /\ Frame("dcp")
    /\ dcpRet = "running"
    /\ dcpPc = "clear"
    /\ dcpProc' = ClearCodeMap(dcpProc)
    /\ dcpPc' = "loop"
    /\ UNCHANGED <<dcpIn, dcpPolicy, dcpG, dcpK, dcpRet, dcpLog>>

\* Whether the loop is at a data unit of the parameter param.
DcpAt(param) ==
    /\ dcpRet = "running"
    /\ dcpPc = "loop"
    /\ dcpK < Len(dcpIn[dcpG])
    /\ dcpIn[dcpG][dcpK + 1].param = param

\* The Text arm: a new decoder, set_drcs(code_map()), decode.
DcpText ==
    /\ Frame("dcp")
    /\ DcpAt("Text")
    /\ LET du == dcpIn[dcpG][dcpK + 1]
           map == CodeMap(dcpProc)
           r == Decode(WithCaptionInitialization, du.data, map)
       IN  /\ dcpLog' = Append(dcpLog, [g |-> dcpG, k |-> dcpK + 1, drcs_map |-> map,
                                        ret |-> r.ret, string |-> r.string])
           /\ dcpRet' = IF r.ret = "ok" THEN "running" ELSE "failed"
    /\ dcpK' = dcpK + 1
    /\ UNCHANGED <<dcpIn, dcpPolicy, dcpG, dcpPc, dcpProc>>

\* The DRCS1 arm: drcs_processor.process(du.data_unit_data)?.
DcpDrcs1 ==
    /\ Frame("dcp")
    /\ DcpAt("DRCS1")
    /\ LET r == Process(dcpProc, dcpPolicy, dcpIn[dcpG][dcpK + 1])
       IN  /\ dcpProc' = r.proc
           /\ dcpRet' = IF r.ret = "ok" THEN "running" ELSE "failed"
    /\ dcpK' = dcpK + 1
    /\ UNCHANGED <<dcpIn, dcpPolicy, dcpG, dcpPc, dcpLog>>

\* The arm of any other data unit.
DcpOther ==
    /\ Frame("dcp")
    /\ DcpAt("Other")
    /\ dcpK' = dcpK + 1
    /\ UNCHANGED <<dcpIn, dcpPolicy, dcpG, dcpPc, dcpProc, dcpRet, dcpLog>>

\* dump_caption returns Ok(()); the fold goes on with the next data group,
\* or the stream has ended.
DcpReturn ==
    /\ Frame("dcp")
    /\ dcpRet = "running"
    /\ dcpPc = "loop"
    /\ dcpK = Len(dcpIn[dcpG])
    /\ IF dcpG < Len(dcpIn)
       THEN dcpG' = dcpG + 1 /\ dcpK' = 0 /\ dcpPc' = "clear" /\ dcpRet' = dcpRet
       ELSE dcpRet' = "done" /\ UNCHANGED <<dcpG, dcpK, dcpPc>>
    /\ UNCHANGED <<dcpIn, dcpPolicy, dcpProc, dcpLog>>

DcpNext ==
    \/ DcpClear
    \/ DcpText
    \/ DcpDrcs1
    \/ DcpOther
    \/ DcpReturn

SpecDcp == InitDcp /\ [][DcpNext]_vars

\* The character codes the DRCS-1 data units before the unit k of the data
\* group g define.
DcpCodesBefore(g, k) ==
    UNION {{dcpIn[g][j].codes[c].character_code : c \in DOMAIN dcpIn[g][j].codes} :
              j \in {i \in 1..(k - 1) : dcpIn[g][i].param = "DRCS1"}}

\* C36: the DRCS code map used to decode a Text data unit contains exactly
\* the character codes defined by the DRCS-1 data units that precede it
\* within the same data group: the map is emptied at the start of every
\* data group, so a Text unit sees neither codes defined in an earlier data
\* group nor codes defined by a DRCS-1 unit that follows it in its own
\* group.
DcpTextSeesOwnGroup ==
    /\ \A n \in DOMAIN dcpLog :
          /\ dcpIn[dcpLog[n].g][dcpLog[n].k].param = "Text"
          /\ DOMAIN dcpLog[n].drcs_map = DcpCodesBefore(dcpLog[n].g, dcpLog[n].k)
    /\ \A g \in DOMAIN dcpIn : \A k \in DOMAIN dcpIn[g] :
          (dcpIn[g][k].param = "Text" /\ (g < dcpG \/ (g = dcpG /\ k <= dcpK))) =>
              \E n \in DOMAIN dcpLog : dcpLog[n].g = g /\ dcpLog[n].k = k

\* A Text unit of a second data group was decoded with the code of its own
\* group alone, the first group having defined another code.
DcpTextSeesOwnGroupWitness ==
    \E n \in DOMAIN dcpLog :
        /\ dcpLog[n].g = 2
        /\ dcpLog[n].ret = "ok"
        /\ dcpLog[n].string # <<>>
        /\ DOMAIN dcpLog[n].drcs_map = {16674}
        /\ \E j \in DOMAIN dcpIn[1] : dcpIn[1][j] = DrcsHit


(***************************************************************************)
(* pes/buffer.rs: the reassembler polled on after it has returned          *)
(* Ready(None).                                                            *)
(***************************************************************************)
\* Bound: the polls made after the first Ready(None).
MaxPesEnds == 2

\* One more call of Buffer::poll_next after Ready(None) was returned.
PesPollClosed ==
    /\ PesStopped
    /\ Cardinality({i \in DOMAIN pesOut : pesOut[i].kind = "end"}) <= MaxPesEnds
    /\ \E ready \in pesPos..Len(pesUp), eof \in BOOLEAN :
         LET st == [state |-> pesState, counter |-> pesCounter, buf |-> pesBuf,
                    pos |-> pesPos]
             r == PesPollNext(st, pesUp, ready, eof)
             item == [kind |-> r.kind, bytes |-> r.bytes, eos |-> r.eos,
                      at |-> r.st.pos, took |-> r.st.pos - pesPos,
                      before |-> [state |-> pesState, counter |-> pesCounter,
                                  buf |-> pesBuf],
                      after |-> [state |-> r.st.state,
                                 counter |-> r.st.counter, buf |-> r.st.buf]]
         IN  /\ (eof => ready = Len(pesUp))
             /\ pesState' = r.st.state
             /\ pesCounter' = r.st.counter
             /\ pesBuf' = r.st.buf
             /\ pesPos' = r.st.pos
             /\ pesOut' = IF r.kind = "pending" THEN pesOut ELSE Append(pesOut, item)
             /\ pesLast' = <<item>>
    /\ UNCHANGED pesUp
    /\ Frame("pes")

PesEndNext ==
    \/ PesBufferPollNext
    \/ PesPollClosed

SpecPesEnd == InitPes /\ [][PesEndNext]_vars

\* Whether the reassembler is Buffering when the whole upstream has been
\* taken: there is a start packet, and no gap after the last one.
PesBufferingAtEnd ==
    LET starts == PesStarts(pesUp, Len(pesUp))
        s == CHOOSE t \in starts : \A u \in starts : u <= t
    IN  starts # {} /\ ~PesUnit(pesUp, s, Len(pesUp) + 1).gap

\* C37: after upstream has reported end-of-stream, the PES reassembler
\* yields at most one more item (the pending packet or an error for it, and
\* only if it was Buffering) and from then on returns end-of-stream on
\* every poll without polling upstream again.
PesEndOfStream ==
    \A i \in DOMAIN pesOut :
        pesOut[i].eos =>
            /\ pesOut[i].at = Len(pesUp)
            /\ pesOut[i].after.state = "Closed"
            /\ IF PesBufferingAtEnd
               THEN pesOut[i].kind \in {"pes", "not enough data"}
               ELSE pesOut[i].kind = "end"
            /\ \A j \in (i + 1)..Len(pesOut) :
                  /\ pesOut[j].kind = "end"
                  /\ ~pesOut[j].eos
                  /\ pesOut[j].took = 0
                  /\ pesOut[j].before.state = "Closed"
                  /\ pesOut[j].after = pesOut[j].before
            /\ pesLast[1].kind # "pending"

\* The pending packet was returned at the end of the upstream, and the
\* reassembler was polled three times after it.
PesEndOfStreamWitness ==
    \E i \in DOMAIN pesOut :
        /\ pesOut[i].eos
        /\ pesOut[i].kind = "pes"
        /\ Len(pesOut) >= i + 3


(***************************************************************************)
(* ts/demuxer.rs: try_register and the count of open sinks, with the       *)
(* packets told apart by PID only and no count of the calls kept.          *)
(***************************************************************************)
\* A holder of a Register calls try_register(pid).
DmxRegisterCall ==
    /\ \E pid \in DmxPid :
         LET r == DmxTryRegister(DmxInner, dmxChan, pid)
         IN  /\ dmxNum' = r.inner.num
             /\ dmxSenders' = r.inner.senders
             /\ dmxClosed' = r.inner.closed
             /\ dmxChan' = r.chans
             /\ dmxLastReg' = <<[ret |-> r.ret, alive |-> dmxAlive,
                                 same |-> r.inner = DmxInner /\ r.chans = dmxChan,
                                 pid |-> pid,
                                 before |-> [inner |-> DmxInner, chans |-> dmxChan],
                                 after |-> [inner |-> r.inner, chans |-> r.chans]]>>
    /\ UNCHANGED <<dmxAlive, dmxRecvd, dmxSends, dmxLast, dmxEnded, dmxDue,
                   dmxBuffered>>
    /\ Frame("dmx")

\* Forward calls start_send: with the item it was handed back, if any, and
\* with the next item of the stream otherwise.
DmxSendCall ==
    /\ dmxAlive
    /\ \E pid \in DmxPid :
         LET item == IF dmxBuffered # <<>> THEN dmxBuffered[1]
                                          ELSE [pid |-> pid, seq |-> 0]
             r == DmxStartSend(DmxInner, dmxChan, item)
         IN  /\ dmxNum' = r.inner.num
             /\ dmxSenders' = r.inner.senders
             /\ dmxClosed' = r.inner.closed
             /\ dmxChan' = r.chans
             /\ dmxBuffered' = IF r.ret = "NotReady" THEN <<item>> ELSE <<>>
    /\ UNCHANGED <<dmxAlive, dmxRecvd, dmxSends, dmxLast, dmxLastReg, dmxEnded,
                   dmxDue>>
    /\ Frame("dmx")

\* The Receiver of a PID takes the packet in its channel.
DmxReceiveCall ==
    /\ \E pid \in DOMAIN dmxChan :
         /\ dmxChan[pid].rx = "open"
         /\ dmxChan[pid].queue # <<>>
         /\ dmxChan' = [dmxChan EXCEPT ![pid].queue = Tail(@)]
    /\ UNCHANGED <<dmxNum, dmxSenders, dmxClosed, dmxAlive, dmxRecvd, dmxSends,
                   dmxLast, dmxLastReg, dmxEnded, dmxDue, dmxBuffered>>
    /\ Frame("dmx")

DmxRegNext ==
    \/ DmxRegisterCall
    \/ DmxSendCall
    \/ DmxReceiveCall
    \/ DmxReceiverDrop
    \/ DmxReceiveEnd
    \/ DmxDrop

SpecDmxReg == InitDmx /\ [][DmxRegNext]_vars

\* The routing entries of Inner that are not marked closed.
DmxOpenEntries(inner) == {p \in DOMAIN inner.senders : ~inner.senders[p].closed}

\* The PIDs try_register was called with successfully before: a channel
\* was made for each and is never forgotten here.
DmxEverRegistered(l) == DOMAIN l.before.chans

\* C38: try_register(pid) returns a receiver and adds exactly one routing
\* entry if and only if the demuxer has not been dropped and pid has never
\* been registered before; it returns AlreadyRegistered when pid already
\* has an entry (also one whose sink has closed) and Closed once the
\* demuxer has been dropped, and in both error cases leaves the routing
\* table and the open-sink count unchanged. While the demuxer is alive the
\* open-sink count equals the number of routing entries not marked closed.
DmxRegistersOnce ==
    /\ dmxAlive => dmxNum = Cardinality(DmxOpenEntries(DmxInner))
    /\ \A i \in DOMAIN dmxLastReg :
         LET l == dmxLastReg[i]
             b == l.before.inner
             a == l.after.inner
         IN  /\ l.ret = "Ok" <=> (l.alive /\ l.pid \notin DmxEverRegistered(l))
             /\ l.ret = "AlreadyRegistered" <=>
                    (l.alive /\ l.pid \in DOMAIN b.senders)
             /\ l.ret = "Closed" <=> ~l.alive
             /\ l.ret = "Ok" =>
                    /\ l.pid \notin DOMAIN b.senders
                    /\ DOMAIN a.senders = DOMAIN b.senders \cup {l.pid}
                    /\ \A p \in DOMAIN b.senders : a.senders[p] = b.senders[p]
                    /\ ~a.senders[l.pid].closed
                    /\ a.num = b.num + 1
                    /\ a.closed = b.closed
                    /\ l.after.chans[l.pid] = DmxChannel
                    /\ \A p \in DOMAIN l.before.chans :
                          l.after.chans[p] = l.before.chans[p]
             /\ l.ret # "Ok" => l.after = l.before

\* try_register was refused for a PID whose entry is marked closed, while
\* another sink is open.
DmxRegistersOnceWitness ==
    /\ dmxLastReg # <<>>
    /\ dmxAlive
    /\ dmxLastReg[1].ret = "AlreadyRegistered"
    /\ dmxLastReg[1].before.inner.senders[dmxLastReg[1].pid].closed
    /\ dmxNum = 1


(***************************************************************************)
(* ts/packet.rs into psi/buffer.rs: the PSI reassembler fed with what the  *)
(* packet decoder makes of a buffer.                                       *)
(***************************************************************************)
\* The TSPacket of a decoded buffer as the reassembler reads it.
TsdPacket(out) ==
    Packet(out.transport_error_indicator, PacketPusi(out.raw), PacketCc(out.raw),
           out.data # <<>>, IF out.data # <<>> THEN out.data[1] ELSE <<>>)

\* The stream the reassembler polls decodes the buffer, and holds the
\* packet if there is one.
TsdDecodeInto ==
    /\ tsdOut = <<>>
    /\ IF psiLast = <<>> THEN TRUE ELSE psiLast[1].kind = "pending"
    /\ LET out == TSPacketDecode(tsdSrc)
       IN  /\ tsdOut' = <<out>>
           /\ psiUp' = IF out.ret = "some" THEN Append(psiUp, TsdPacket(out))
                                           ELSE psiUp
    /\ UNCHANGED <<tsdSrc, psiPos, psiState, psiCounter, psiBuf, psiOut, psiLast>>
    /\ UNCHANGED <<cueVars, patVars, pesVars, dmxVars, clnVars, kpsVars, capVars,
                   evtVars, eitVars, jitVars, fmmVars, arbVars, tieVars, pasVars,
                   dcpVars, fwdVars>>

PsiDecodedNext ==
    \/ TsdDecodeInto
    \/ PsiBufferPollNext

SpecPsiDecoded == InitTsd /\ [][PsiDecodedNext]_vars

\* What BufferError can be.
BufferErrorValues == {"MalformedNoData", "MalformedNoSectionHeader", "Discontinued"}

\* C39: for every TS packet the packet decoder can produce, including a
\* payload_unit_start packet whose payload is empty because the adaptation
\* field fills the packet and one whose pointer field points past the end
\* of the payload, feeding it to the PSI reassembler yields a section,
\* nothing, or a BufferError value; the reassembler never reads outside the
\* payload or outside its buffer.
PsiDecodedNeverPanics ==
    \A i \in DOMAIN psiLast :
        psiLast[i].kind \in {"section", "pending", "end"} \cup BufferErrorValues


(***************************************************************************)
(* cmd/clean.rs: ForwardUntilResolved. The stream yields fwdSrc; stream,   *)
(* sink and future answer each call as they like. A poll that returns      *)
(* NotReady is called again, and begins where `continue` leads: at the     *)
(* head of the loop.                                                       *)
(***************************************************************************)
\* Bounds: how many items the stream yields, and how often the sink
\* answers NotReady to start_send or close.
MaxFwdItems == 3
MaxFwdWaits == 2

\* ForwardUntilResolved::new(stream, sink, future)
FwdInit ==
    /\ fwdSrc \in {[i \in 1..n |-> i] : n \in 0..MaxFwdItems}
    /\ fwdPos = 0
    /\ fwdItem = <<>>
    /\ fwdDone = FALSE
    /\ fwdSunk = <<>>
    /\ fwdLog = <<>>
    /\ fwdWaits = 0
    /\ fwdPc = "future"
    /\ fwdRet = <<>>

InitFwd == FwdInit /\ Idle("fwd")

\* One call made in poll: which, with which item (0 for none), and its
\* answer.
FwdCall(op, item, ret) == [op |-> op, item |-> item, ret |-> ret]

\* What start_send and close may answer.
FwdSinkAnswers ==
    {"Ready", "Err"} \cup (IF fwdWaits < MaxFwdWaits THEN {"NotReady"} ELSE {})

\* AsyncSink::NotReady(item) => self.forward_item = Some(item)
FwdOnRefused_Drops(item) == <<>>
FwdOnRefused(item) == <<item>>

\* match self.future.poll()? { ... }
FwdPollFuture ==
    /\ fwdPc = "future"
    /\ \E ans \in {"Ready", "NotReady", "Err"} :
         /\ fwdPc' = CASE ans = "Ready" -> "resolved"
                       [] ans = "Err" -> "failed"
                       [] OTHER -> IF fwdDone THEN "future" ELSE "kept"
         /\ fwdRet' = IF ans = "Ready"
                        THEN <<[item |-> "item",
                                stream |-> SubSeq(fwdSrc, fwdPos + 1, Len(fwdSrc)),
                                sink |-> fwdSunk]>>
                        ELSE fwdRet
         /\ fwdLog' = IF ans = "Ready" THEN Append(fwdLog, FwdCall("future", 0, ans))
                                       ELSE fwdLog
    /\ UNCHANGED <<fwdSrc, fwdPos, fwdItem, fwdDone, fwdSunk, fwdWaits>>
    /\ Frame("fwd")

\* match self.forward_item.take() { ... }
FwdOfferKept ==
    /\ fwdPc = "kept"
    /\ IF fwdItem = <<>>
         THEN /\ fwdPc' = "stream"
              /\ UNCHANGED <<fwdItem, fwdSunk, fwdLog, fwdWaits>>
         ELSE \E ans \in FwdSinkAnswers :
                /\ fwdPc' = IF ans = "Err" THEN "failed" ELSE "future"
                /\ fwdItem' = IF ans = "NotReady" THEN FwdOnRefused(fwdItem[1]) ELSE <<>>
                /\ fwdSunk' = IF ans = "Ready" THEN Append(fwdSunk, fwdItem[1])
                                               ELSE fwdSunk
                /\ fwdWaits' = IF ans = "NotReady" THEN fwdWaits + 1 ELSE fwdWaits
                /\ fwdLog' = Append(fwdLog, FwdCall("start_send", fwdItem[1], ans))
    /\ UNCHANGED <<fwdSrc, fwdPos, fwdDone, fwdRet>>
    /\ Frame("fwd")

\* match self.stream_mut().poll()? { ... }
FwdPullStream ==
    /\ fwdPc = "stream"
    /\ \E got \in {"item", "NotReady", "Err"}, ans \in FwdSinkAnswers,
          complete \in {"Ready", "NotReady", "Err"} :
         CASE got = "item" /\ fwdPos < Len(fwdSrc) ->
                \* Async::Ready(Some(item))
                LET item == fwdSrc[fwdPos + 1]
                IN  /\ complete = "Ready"
                    /\ fwdPos' = fwdPos + 1
                    /\ fwdPc' = IF ans = "Err" THEN "failed" ELSE "future"
                    /\ fwdItem' = IF ans = "NotReady" THEN FwdOnRefused(item) ELSE <<>>
                    /\ fwdSunk' = IF ans = "Ready" THEN Append(fwdSunk, item)
                                                   ELSE fwdSunk
                    /\ fwdWaits' = IF ans = "NotReady" THEN fwdWaits + 1
                                                       ELSE fwdWaits
                    /\ fwdLog' = fwdLog \o <<FwdCall("poll", item, "Some"),
                                             FwdCall("start_send", item, ans)>>
                    /\ UNCHANGED fwdDone
           [] got = "item" /\ fwdPos >= Len(fwdSrc) ->
                \* Async::Ready(None)
                /\ complete = "Ready"
                /\ fwdPc' = IF ans = "Err" THEN "failed" ELSE "future"
                /\ fwdDone' = (ans = "Ready")
                /\ fwdWaits' = IF ans = "NotReady" THEN fwdWaits + 1 ELSE fwdWaits
                /\ fwdLog' = fwdLog \o <<FwdCall("poll", 0, "None"),
                                         FwdCall("close", 0, ans)>>
                /\ UNCHANGED <<fwdPos, fwdItem, fwdSunk>>
           [] got = "NotReady" ->
                \* Async::NotReady => self.sink_mut().poll_complete()
                /\ ans = "Ready"
                /\ fwdPc' = IF complete = "Err" THEN "failed" ELSE "future"
                /\ UNCHANGED <<fwdPos, fwdItem, fwdSunk, fwdDone, fwdWaits, fwdLog>>
           [] got = "Err" ->
                /\ ans = "Ready" /\ complete = "Ready"
                /\ fwdPc' = "failed"
                /\ UNCHANGED <<fwdPos, fwdItem, fwdSunk, fwdDone, fwdWaits, fwdLog>>
    /\ UNCHANGED <<fwdSrc, fwdRet>>
    /\ Frame("fwd")

FwdNext ==
    \/ FwdPollFuture
    \/ FwdOfferKept
    \/ FwdPullStream

SpecFwd == InitFwd /\ [][FwdNext]_vars

\* C40: ForwardUntilResolved hands items to the sink in stream order and
\* without duplication: an item the sink refuses (NotReady) is kept and
\* offered again before any further item is pulled from the stream. It
\* resolves with the future's result together with the stream and the sink
\* as soon as the future is ready and pulls no stream item after that; once
\* the stream has ended and the sink has been closed it pulls and sends
\* nothing more.
FwdForwardsInOrder ==
    /\ IsPrefix(fwdSunk, SubSeq(fwdSrc, 1, fwdPos))
    /\ fwdPc # "failed" => fwdSunk \o fwdItem = SubSeq(fwdSrc, 1, fwdPos)
    /\ \A i \in DOMAIN fwdLog :
         /\ (fwdLog[i].op = "start_send" /\ fwdLog[i].ret = "NotReady") =>
                /\ i = Len(fwdLog) => fwdItem = <<fwdLog[i].item>>
                /\ i < Len(fwdLog) =>
                      \/ fwdLog[i + 1].op = "future"
                      \/ /\ fwdLog[i + 1].op = "start_send"
                         /\ fwdLog[i + 1].item = fwdLog[i].item
         /\ fwdLog[i].op = "future" =>
                /\ i = Len(fwdLog)
                /\ fwdPc = "resolved"
                /\ fwdRet = <<[item |-> "item",
                               stream |-> SubSeq(fwdSrc, fwdPos + 1, Len(fwdSrc)),
                               sink |-> fwdSunk]>>
         /\ (fwdLog[i].op = "close" /\ fwdLog[i].ret = "Ready") =>
                /\ fwdDone
                /\ fwdPos = Len(fwdSrc)
                /\ \A j \in (i + 1)..Len(fwdLog) : fwdLog[j].op = "future"
    /\ fwdPc = "resolved" <=> (fwdLog # <<>> /\ fwdLog[Len(fwdLog)].op = "future")

\* The sink refused an item and took it when it was offered again, took
\* the rest of the stream after it and was closed, and the future was
\* ready then.
FwdForwardsInOrderWitness ==
    /\ fwdPc = "resolved"
    /\ fwdDone
    /\ Len(fwdSunk) = MaxFwdItems
    /\ \E i \in DOMAIN fwdLog :
          /\ fwdLog[i] = FwdCall("start_send", 1, "NotReady")
          /\ fwdLog[i + 1] = FwdCall("start_send", 1, "Ready")

====
